---- MODULE Spec2Model ----
(***************************************************************************)
(* A model of phenocam_finder: the suitability scorer and the gap          *)
(* analysis of core.py, the file caches of satellite_query.py and          *)
(* phenocam_query.py, alone and shared by several workers, the per-site,   *)
(* per-season evaluation of DataFinder, and the NDVI statistics and the    *)
(* thread pool of get_indices.py.                                          *)
(*                                                                         *)
(* Numbers.  A Python float is modelled as an integer count of 1/Scale     *)
(* (thousandths), every division truncating.  A datetime is an integer     *)
(* count of hours since 1 January 00:00 of a non-leap year; a timedelta    *)
(* is a difference of two of them and its .days is the floor of the        *)
(* difference divided by 24.  An optional Python value is a tuple: <<>>    *)
(* is None and <<v>> is the value v.                                       *)
(***************************************************************************)
EXTENDS Integers, Sequences, FiniteSets, TLC

VARIABLES
    input,      \* the arguments of the calculation under test
    output,     \* what the calculation returned or raised; NotRun before
    output2,    \* a second evaluation, with one sensor's records changed
    now,        \* datetime.now(), in hours
    sat_files,  \* SatelliteQuery.cache_dir: cache key -> content of <key>.json
    sat_hits,   \* SatelliteQuery.cache_hits
    sat_misses, \* SatelliteQuery.cache_misses
    phen_file,  \* PhenoCamQuery.cache_dir: content of its one cache file
    phen_hits,  \* PhenoCamQuery.cache_hits
    phen_misses,\* PhenoCamQuery.cache_misses
    last,       \* what the latest lookup did
    pc,         \* where DataFinder is: "idle", in the loop over the sites
                \* ("next_site"), in the loop over the years of one site
                \* ("season"), "returned" or "raised"
    run_exc,    \* the exception the call raised, when pc = "raised"
    locations,  \* evaluate_all_sites: the locations it evaluates
    site_i,     \* how many of them it has started
    years,      \* evaluate_site_by_seasons: the years still to evaluate
    seasonal_results, \* evaluate_site_by_seasons: the results so far
    results,    \* evaluate_all_sites: the results so far
    asked,      \* for each result, in order, what the two sensor queries
                \* returned or raised while it was made
    disk,       \* the cache directory several workers share: the inode the
                \* path <key>.json names (0: no file) and each inode's content
    workers,    \* each worker's position in its lookup, the inode it holds
                \* open, its counters and what it returned or raised
    sites,      \* process_ndvi: data["sites"], (site, year) -> season record
    futures,    \* process_ndvi: the futures of the submitted tasks
    completed,  \* process_ndvi: its counter
    ndvi_pc     \* where process_ndvi is: "idle", "pool" or "returned"

calc_vars == <<input, output, output2>>
cache_vars == <<now, sat_files, sat_hits, sat_misses,
                phen_file, phen_hits, phen_misses, last>>
run_vars == <<pc, run_exc, locations, site_i, years, seasonal_results, results, asked>>
race_vars == <<disk, workers>>
pool_vars == <<sites, futures, completed, ndvi_pc>>
vars == <<calc_vars, cache_vars, run_vars, race_vars, pool_vars>>

----------------------------------------------------------------------------
(* Bounds of the model *)

MaxFeatures == 2        \* longest feature list a sensor query returns
MaxLocations == 2       \* largest max_locations evaluate_all_sites is given
MaxLookups == 2         \* lookups counted as a hit or a miss in one behaviour
MaxEntries == 3         \* longest NDVI time series
MaxWorkers == 2         \* workers that issue the same query at the same time
MaxSeasons == 2         \* seasons of a site process_ndvi is given

----------------------------------------------------------------------------
(* Arithmetic helpers *)

Scale == 10 ^ 3

Min(a, b) == IF a <= b THEN a ELSE b
Max(a, b) == IF a >= b THEN a ELSE b
Abs(a) == IF a < 0 THEN -a ELSE a

\* product and quotient of two floats
Mul(a, b) == (a * b) \div Scale
Div(a, b) == (a * Scale) \div b

\* round(x, 2), round(x, 1): to the nearest hundredth, tenth
Round2(x) == ((x + 5) \div 10) * 10
Round1(x) == ((x + 50) \div 100) * 100
\* round(x, 3) of a value computed at ten times the resolution
Round3(x10) == (x10 + 5) \div 10

RECURSIVE SumSeq(_)
SumSeq(s) == IF s = <<>> THEN 0 ELSE Head(s) + SumSeq(Tail(s))

RECURSIVE MaxSeq(_)
MaxSeq(s) == IF Len(s) = 1 THEN s[1] ELSE Max(Head(s), MaxSeq(Tail(s)))

\* r ** 5 of a float, and the largest r in lo..hi-1 with r ** 5 <= x, by bisection
Pow5(r) == Mul(Mul(Mul(Mul(r, r), r), r), r)
RECURSIVE Root5(_, _, _)
Root5(lo, hi, x) ==
    IF hi - lo <= 1 THEN lo
    ELSE LET mid == (lo + hi) \div 2
         IN  IF Pow5(mid) <= x THEN Root5(mid, hi, x) ELSE Root5(lo, mid, x)

RECURSIVE ISqrt(_, _, _)
ISqrt(lo, hi, v) ==
    IF hi - lo <= 1 THEN lo
    ELSE LET mid == (lo + hi) \div 2
         IN  IF mid * mid <= v THEN ISqrt(mid, hi, v) ELSE ISqrt(lo, mid, v)

\* sqrt(x) of a float
Sqrt(x) == ISqrt(0, Max(x, Scale) + 1, x * Scale)
\* x ** 1.5 == x * sqrt(x)
Pow15(x) == Mul(x, Sqrt(x))
\* x ** 1.2 == x * x ** (1/5)
\* (for x up to 4 ** 5, whose fifth root is at most 4)
Pow12(x) == Mul(x, Root5(0, Min(Max(x, Scale), 4 * Scale) + 1, x))

\* math.exp(1) and math.exp(f) for 0 <= f < 1 by its Taylor series
EulerE == 2718
ExpFrac(f) ==
    LET f2 == Mul(f, f)
        f3 == Mul(f2, f)
        f4 == Mul(f3, f)
        f5 == Mul(f4, f)
    IN  Scale + f + (f2 \div 2) + (f3 \div 6) + (f4 \div 24) + (f5 \div 120)
RECURSIVE ExpInt(_)
ExpInt(q) == IF q = 0 THEN Scale ELSE Mul(ExpInt(q - 1), EulerE)
\* math.exp(gap / tau) for integers gap >= 0, tau > 0
Exp(gap, tau) == Mul(ExpInt(gap \div tau), ExpFrac(((gap % tau) * Scale) \div tau))

\* sorted(): insertion sort of a sequence of integers
RECURSIVE Insert(_, _)
Insert(x, s) ==
    IF s = <<>> THEN <<x>>
    ELSE IF x < Head(s) THEN <<x>> \o s
    ELSE <<Head(s)>> \o Insert(x, Tail(s))
RECURSIVE sorted(_)
sorted(s) == IF s = <<>> THEN <<>> ELSE Insert(s[Len(s)], sorted(SubSeq(s, 1, Len(s) - 1)))

\* the sequences over S of length at most n
SeqUpTo(S, n) == UNION {[1..k -> S] : k \in 0..n}

----------------------------------------------------------------------------
(* Python values *)

None == <<>>
Some(v) == <<v>>

Return(v) == [raised |-> FALSE, exc |-> "", value |-> v]
Raise(e) == [raised |-> TRUE, exc |-> e, value |-> None]
NotRun == [raised |-> FALSE, exc |-> "not run", value |-> None]
Ran(o) == o.exc # "not run"

\* dict.get(key, default)
Get(d, key, default) == IF key \in DOMAIN d THEN d[key] ELSE default

----------------------------------------------------------------------------
(* datetime *)

CumDays == <<0, 31, 59, 90, 120, 151, 181, 212, 243, 273, 304, 334>>

\* datetime(year, month, day, hour)
DateTime(month, day, hour) == ((CumDays[month] + day - 1) * 24) + hour
\* (a - b).days
Days(delta) == delta \div 24
\* d.date(), d.isoformat()[:10]: the calendar day, the time of day dropped
DateOf(dt) == dt \div 24
\* d.month
MonthOf(dt) ==
    CHOOSE m \in 1..12 :
        /\ CumDays[m] <= DateOf(dt)
        /\ (m = 12 \/ DateOf(dt) < CumDays[m + 1])

\* A text is a tuple of characters.
Digits == <<"0", "1", "2", "3", "4", "5", "6", "7", "8", "9">>
IsDigit(c) == \E i \in DOMAIN Digits : Digits[i] = c
DigitValue(c) == (CHOOSE i \in DOMAIN Digits : Digits[i] = c) - 1
RECURSIVE Number(_)
Number(text) ==
    IF text = <<>> THEN 0
    ELSE Number(SubSeq(text, 1, Len(text) - 1)) * 10 + DigitValue(text[Len(text)])
DaysInMonth(year, month) ==
    IF month = 2 /\ year % 4 = 0 /\ (year % 100 # 0 \/ year % 400 = 0) THEN 29
    ELSE <<31, 28, 31, 30, 31, 30, 31, 31, 30, 31, 30, 31>>[month]

\* datetime.fromisoformat of a date written YYYY-MM-DD, the form the PhenoCam
\* API uses: the date at 00:00, or ValueError
fromisoformat(text) ==
    IF /\ Len(text) = 10
       /\ text[5] = "-"
       /\ text[8] = "-"
       /\ \A i \in {1, 2, 3, 4, 6, 7, 9, 10} : IsDigit(text[i])
    THEN LET year == Number(SubSeq(text, 1, 4))
             month == Number(SubSeq(text, 6, 7))
             day == Number(SubSeq(text, 9, 10))
         IN  IF /\ year >= 1
                /\ month \in 1..12
                /\ day >= 1
                /\ day <= DaysInMonth(year, month)
             THEN Return([year |-> year, month |-> month, day |-> day])
             ELSE Raise("ValueError")
    ELSE Raise("ValueError")


----------------------------------------------------------------------------
(* config.py *)

growing_season_months == <<4, 5, 6, 7, 8, 9, 10>>
long_output == FALSE
gap_count_threshold == 4
weighted_gap_tau == 20

Range(s) == {s[i] : i \in DOMAIN s}

----------------------------------------------------------------------------
(* core.py: the gap analysis *)

\* A feature of a STAC response: properties.datetime (has_dt FALSE when the
\* key is missing) and properties["eo:cloud_cover"] (None when missing).
Feature(dt, cloud) == [has_dt |-> TRUE, dt |-> dt, cloud |-> cloud]
FeatureNoDatetime == [has_dt |-> FALSE, dt |-> 0, cloud |-> None]

\* feature["properties"]["datetime"] raises KeyError on a feature without it
_extract_growing_season_dates(features, growing_months) ==
    IF \E i \in DOMAIN features : ~features[i].has_dt
    THEN Raise("KeyError")
    ELSE LET InSeason(f) == MonthOf(f.dt) \in Range(growing_months)
             kept == SelectSeq(features, InSeason)
         IN  Return(sorted([i \in DOMAIN kept |-> kept[i].dt]))

\* the gaps with a gap of 0 days made up for a single date
_calculate_gaps_padded(dates) ==
    IF Len(dates) = 0 THEN <<>>
    ELSE IF Len(dates) = 1 THEN <<0>>
    ELSE [i \in 1..(Len(dates) - 1) |-> Days(dates[i + 1] - dates[i])]

_calculate_gaps(dates) ==
    IF Len(dates) < 2 THEN <<>>
    ELSE [i \in 1..(Len(dates) - 1) |-> Days(dates[i + 1] - dates[i])]

_calculate_gap_count(gaps) ==
    IF gaps = <<>> THEN 0
    ELSE Cardinality({i \in DOMAIN gaps : gaps[i] > gap_count_threshold})

\* The score is returned at ten times the resolution of a float, so that
\* round(score, 3) has something to round.
_calculate_weighted_gap_score(gaps, season_length) ==
    IF gaps = <<>> THEN Return(0)
    ELSE LET weights == [i \in DOMAIN gaps |-> Exp(gaps[i], weighted_gap_tau)]
             weighted_gaps == [i \in DOMAIN gaps |-> weights[i] * gaps[i]]
         IN  IF season_length = 0 THEN Raise("ZeroDivisionError")
             ELSE Return((SumSeq(weighted_gaps) * 10) \div season_length)

\* the unrounded score as a float
Float10(x10) == x10 \div 10

\* abs((a - b).days) <= 3
Within3Days(a, b) == Abs(Days(a - b)) <= 3

_calculate_temporal_overlap(s2_dates, s3_dates) ==
    LET Matching(xs, ys) ==
            LET Hit(x) == \E j \in DOMAIN ys : Within3Days(x, ys[j])
                hits == SelectSeq(xs, Hit)
            IN  [i \in DOMAIN hits |-> DateOf(hits[i])]
        s2_overlap_dates == IF long_output THEN Matching(s2_dates, s3_dates) ELSE <<>>
        s3_overlap_dates == IF long_output THEN Matching(s3_dates, s2_dates) ELSE <<>>
        empty == [k \in {} |-> <<>>]
    IN  IF s2_dates = <<>> \/ s3_dates = <<>>
        THEN IF long_output
             THEN ("s2_overlap_dates" :> <<>>) @@ ("s3_overlap_dates" :> <<>>)
             ELSE empty
        ELSE IF long_output
             THEN ("s2_overlap_dates" :> s2_overlap_dates)
                  @@ ("s3_overlap_dates" :> s3_overlap_dates)
             ELSE empty

----------------------------------------------------------------------------
(* core.py: the suitability scorer *)

\* the scorer with the saturation of the S2 density at 3 scenes a month left out
_calculate_suitability_score_unclamped(s2_density, s3_density, cloud_mean, max_gap, overlap_days, s2_weighted_gap_score, s3_weighted_gap_score, gap_count) ==
    IF s2_density = 0 THEN 0
    ELSE
    LET s2_density_score == Mul(Div(s2_density, 3 * Scale), 300)
        s3_density_score == Mul(Min(Div(s3_density, 2 * Scale), Scale), 300)
        cloud_factor == Max(50, Scale - Pow15(Div(cloud_mean, 80 * Scale)))
        cloud_score == Mul(cloud_factor, 250)
        max_gap_component == Max(100, Scale - Pow12(Div(max_gap * Scale, 30 * Scale)))
        weighted_gap_component ==
            Max(100, Scale - Min(Div(s2_weighted_gap_score, 2 * Scale), Scale))
        expected_obs == Max(s2_density * 8, Scale)
        gap_freq_penalty ==
            IF gap_count > 0 THEN Min(Div(gap_count * Scale, expected_obs), Scale) ELSE 0
        gap_freq_component == Max(200, Scale - gap_freq_penalty)
        gap_score == Mul(Mul(max_gap_component, 400)
                         + Mul(weighted_gap_component, 400)
                         + Mul(gap_freq_component, 200), 150)
    IN  s2_density_score + s3_density_score + cloud_score + gap_score

\* the scorer with the weighted gap scores of both sensors in its penalty
_calculate_suitability_score_both_sensors(s2_density, s3_density, cloud_mean, max_gap, overlap_days, s2_weighted_gap_score, s3_weighted_gap_score, gap_count) ==
    IF s2_density = 0 THEN 0
    ELSE
    LET s2_density_score == Mul(Min(Div(s2_density, 3 * Scale), Scale), 300)
        s3_density_score == Mul(Min(Div(s3_density, 2 * Scale), Scale), 300)
        cloud_factor == Max(50, Scale - Pow15(Div(cloud_mean, 80 * Scale)))
        cloud_score == Mul(cloud_factor, 250)
        max_gap_component == Max(100, Scale - Pow12(Div(max_gap * Scale, 30 * Scale)))
        weighted_gap_component ==
            Max(100, Scale - Min(Div(s2_weighted_gap_score + s3_weighted_gap_score,
                                     2 * Scale), Scale))
        expected_obs == Max(s2_density * 8, Scale)
        gap_freq_penalty ==
            IF gap_count > 0 THEN Min(Div(gap_count * Scale, expected_obs), Scale) ELSE 0
        gap_freq_component == Max(200, Scale - gap_freq_penalty)
        gap_score == Mul(Mul(max_gap_component, 400)
                         + Mul(weighted_gap_component, 400)
                         + Mul(gap_freq_component, 200), 150)
    IN  s2_density_score + s3_density_score + cloud_score + gap_score

\* the scorer without the rule for an S2 density of 0
_calculate_suitability_score_without_hard_rule(s2_density, s3_density, cloud_mean, max_gap, overlap_days, s2_weighted_gap_score, s3_weighted_gap_score, gap_count) ==
    LET s2_density_score == Mul(Min(Div(s2_density, 3 * Scale), Scale), 300)
        s3_density_score == Mul(Min(Div(s3_density, 2 * Scale), Scale), 300)
        cloud_factor == Max(50, Scale - Pow15(Div(cloud_mean, 80 * Scale)))
        cloud_score == Mul(cloud_factor, 250)
        max_gap_component == Max(100, Scale - Pow12(Div(max_gap * Scale, 30 * Scale)))
        weighted_gap_component ==
            Max(100, Scale - Min(Div(s2_weighted_gap_score, 2 * Scale), Scale))
        expected_obs == Max(s2_density * 8, Scale)
        gap_freq_penalty ==
            IF gap_count > 0 THEN Min(Div(gap_count * Scale, expected_obs), Scale) ELSE 0
        gap_freq_component == Max(200, Scale - gap_freq_penalty)
        gap_score == Mul(Mul(max_gap_component, 400)
                         + Mul(weighted_gap_component, 400)
                         + Mul(gap_freq_component, 200), 150)
    IN  s2_density_score + s3_density_score + cloud_score + gap_score

\* densities, cloud_mean and the weighted gap scores are floats; max_gap,
\* overlap_days and gap_count are integers
_calculate_suitability_score(s2_density, s3_density, cloud_mean, max_gap, overlap_days, s2_weighted_gap_score, s3_weighted_gap_score, gap_count) ==
    IF s2_density = 0 THEN 0
    ELSE
    LET s2_density_score == Mul(Min(Div(s2_density, 3 * Scale), Scale), 300)
        s3_density_score == Mul(Min(Div(s3_density, 2 * Scale), Scale), 300)
        cloud_factor == Max(50, Scale - Pow15(Div(cloud_mean, 80 * Scale)))
        cloud_score == Mul(cloud_factor, 250)
        max_gap_component == Max(100, Scale - Pow12(Div(max_gap * Scale, 30 * Scale)))
        weighted_gap_component ==
            Max(100, Scale - Min(Div(s2_weighted_gap_score, 2 * Scale), Scale))
        expected_obs == Max(s2_density * 8, Scale)
        gap_freq_penalty ==
            IF gap_count > 0 THEN Min(Div(gap_count * Scale, expected_obs), Scale) ELSE 0
        gap_freq_component == Max(200, Scale - gap_freq_penalty)
        gap_score == Mul(Mul(max_gap_component, 400)
                         + Mul(weighted_gap_component, 400)
                         + Mul(gap_freq_component, 200), 150)
    IN  s2_density_score + s3_density_score + cloud_score + gap_score

----------------------------------------------------------------------------
(* core.py: the metrics of one season and of one site *)

\* statistics.mean and statistics.stdev of integer percentages, as floats;
\* the deviation is taken in tenths
Mean(xs) == (SumSeq(xs) * Scale) \div Len(xs)
Stdev(xs) ==
    LET mean10 == (SumSeq(xs) * 10) \div Len(xs)
        sq == [i \in DOMAIN xs |-> (xs[i] * 10 - mean10) * (xs[i] * 10 - mean10)]
        var == SumSeq(sq) \div (Len(xs) - 1)
    IN  ISqrt(0, Min(var, Scale) + 2, var) * (Scale \div 10)

\* [f["properties"].get("eo:cloud_cover", default) for f in features]
CloudCovers(features, default) ==
    [i \in DOMAIN features |->
        IF features[i].cloud = None THEN default ELSE features[i].cloud[1]]

\* lines 662-675 and 676-688: the temporal metrics of one sensor from its
\* dates and their gaps
S2Temporal(s2_dates, s2_gaps, season_length) ==
    LET wgs == _calculate_weighted_gap_score(s2_gaps, season_length)
    IN  IF s2_dates = <<>>
        THEN Return(("max_s2_gap_days" :> None)
                    @@ ("s2_gap_count" :> 0)
                    @@ ("s2_weighted_gap_score" :> 0))
        ELSE IF wgs.raised THEN wgs
        ELSE Return(("max_s2_gap_days" :> Some(IF s2_gaps # <<>> THEN MaxSeq(s2_gaps) ELSE 0))
                    @@ ("s2_gap_count" :> _calculate_gap_count(s2_gaps))
                    @@ ("s2_weighted_gap_score" :> Round3(wgs.value))
                    @@ ("s2_first_date" :> DateOf(s2_dates[1]))
                    @@ ("s2_last_date" :> DateOf(s2_dates[Len(s2_dates)])))

S3Temporal(s3_dates, s3_gaps, season_length) ==
    LET wgs == _calculate_weighted_gap_score(s3_gaps, season_length)
    IN  IF s3_dates = <<>>
        THEN Return(("max_s3_gap_days" :> None)
                    @@ ("s3_gap_count" :> 0)
                    @@ ("s3_weighted_gap_score" :> 0))
        ELSE IF wgs.raised THEN wgs
        ELSE Return(("max_s3_gap_days" :> Some(IF s3_gaps # <<>> THEN MaxSeq(s3_gaps) ELSE 0))
                    @@ ("s3_gap_count" :> _calculate_gap_count(s3_gaps))
                    @@ ("s3_weighted_gap_score" :> Round3(wgs.value))
                    @@ ("s3_first_date" :> DateOf(s3_dates[1]))
                    @@ ("s3_last_date" :> DateOf(s3_dates[Len(s3_dates)])))

\* the temporal metrics with one gap list shared by the two sensors: the S3
\* gaps are appended to the S2 gaps instead of starting a list of their own
SeasonTemporalMetrics_shared(s2_dates, s3_dates, season_length) ==
    LET s2_gaps == _calculate_gaps(s2_dates)
        s3_gaps == s2_gaps \o _calculate_gaps(s3_dates)
        s2 == S2Temporal(s2_dates, s2_gaps, season_length)
        s3 == S3Temporal(s3_dates, s3_gaps, season_length)
    IN  IF s2.raised THEN s2
        ELSE IF s3.raised THEN s3
        ELSE Return(s2.value @@ s3.value)

\* lines 661-688: the temporal metrics of both sensors
SeasonTemporalMetrics(s2_dates, s3_dates, season_length) ==
    LET s2_gaps == _calculate_gaps(s2_dates)
        s3_gaps == _calculate_gaps(s3_dates)
        s2 == S2Temporal(s2_dates, s2_gaps, season_length)
        s3 == S3Temporal(s3_dates, s3_gaps, season_length)
    IN  IF s2.raised THEN s2
        ELSE IF s3.raised THEN s3
        ELSE Return(s2.value @@ s3.value)

\* lines 690-716: the cloud cover statistics of both sensors
SeasonCloudMetrics(s2_features, s3_features) ==
    LET s2_cloud_covers == CloudCovers(s2_features, 0)
        s3_cloud_covers == CloudCovers(s3_features, 0)
        StdOf(xs) == Round1(IF Len(xs) > 1 THEN Stdev(xs) ELSE 0)
    IN  (IF s2_features # <<>>
         THEN ("s2_cloud_cover_mean" :> Round1(Mean(s2_cloud_covers)))
              @@ ("s2_cloud_cover_std" :> StdOf(s2_cloud_covers))
         ELSE ("s2_cloud_cover_mean" :> 0) @@ ("s2_cloud_cover_std" :> 0))
        @@
        (IF s3_features # <<>>
         THEN ("s3_cloud_cover_mean" :> Round1(Mean(s3_cloud_covers)))
              @@ ("s3_cloud_cover_std" :> StdOf(s3_cloud_covers))
         ELSE ("s3_cloud_cover_mean" :> 0) @@ ("s3_cloud_cover_std" :> 0))

\* lines 722-768: the densities and the call of the scorer, on the result so far
SeasonScore(result, s2_dates, s3_dates, overlap_data) ==
    LET season_days == result["season_length_days"]
        s2_density == IF season_days > 0
                      THEN (Len(s2_dates) * 30 * Scale) \div season_days ELSE 0
        s3_density == IF season_days > 0
                      THEN (Len(s3_dates) * 30 * Scale) \div season_days ELSE 0
        overlap_count == Len(Get(overlap_data, "s2_overlap_dates", <<>>))
        s2_cloud_mean == Get(result, "s2_cloud_cover_mean", 0)
        s2_max == Get(result, "max_s2_gap_days", Some(999))
        s3_max == Get(result, "max_s3_gap_days", Some(999))
        s2_gap == IF s2_max = None THEN 999 ELSE s2_max[1]
        s3_gap == IF s3_max = None THEN 999 ELSE s3_max[1]
    IN  Round2(_calculate_suitability_score(
            s2_density, s3_density, s2_cloud_mean, Min(s2_gap, s3_gap),
            overlap_count,
            Get(result, "s2_weighted_gap_score", 0),
            Get(result, "s3_weighted_gap_score", 0),
            Get(result, "s2_gap_count", 0)))

NoDataMarker == "No satellite data available for this season"

\* the no-data result without its marker and with an unknown score
NoDataResult_unknown(basic) == ("suitability_score" :> None) @@ basic

\* lines 653-656: the result of a season without any in-season record
NoDataResult(basic) ==
    ("error" :> NoDataMarker) @@ ("suitability_score" :> Some(0)) @@ basic

_calculate_seasonal_metrics(s2_data, s3_data, sitename, year, season_start, season_end, season_months) ==
    LET s2_features == Get(s2_data, "features", <<>>)
        s3_features == Get(s3_data, "features", <<>>)
        s2_ext == _extract_growing_season_dates(s2_features, season_months)
        s3_ext == _extract_growing_season_dates(s3_features, season_months)
        s2_dates == s2_ext.value
        s3_dates == s3_ext.value
        season_length == Days(season_end - season_start)
        basic == ("sitename" :> sitename)
                 @@ ("sentinel2_scenes" :> Len(s2_dates))
                 @@ ("sentinel3_scenes" :> Len(s3_dates))
                 @@ ("season_start_date" :> DateOf(season_start))
                 @@ ("season_end_date" :> DateOf(season_end))
                 @@ ("season_length_days" :> season_length)
        temporal == SeasonTemporalMetrics(s2_dates, s3_dates, season_length)
        overlap_data == _calculate_temporal_overlap(s2_dates, s3_dates)
        result == overlap_data
                  @@ SeasonCloudMetrics(s2_features, s3_features)
                  @@ temporal.value @@ basic
    IN  IF s2_ext.raised THEN s2_ext
        ELSE IF s3_ext.raised THEN s3_ext
        ELSE IF s2_dates = <<>> /\ s3_dates = <<>>
        THEN Return(NoDataResult(basic))
        ELSE IF temporal.raised THEN temporal
        ELSE Return(("suitability_score" :>
                        Some(SeasonScore(result, s2_dates, s3_dates, overlap_data)))
                    @@ result)

_calculate_site_metrics(s2_features, s3_features, start_date, end_date) ==
    LET growing_months == growing_season_months
        s2_ext == _extract_growing_season_dates(s2_features, growing_months)
        s3_ext == _extract_growing_season_dates(s3_features, growing_months)
        s2_dates == s2_ext.value
        s3_dates == s3_ext.value
        s2_density == (Len(s2_dates) * Scale) \div Len(growing_months)
        s3_density == (Len(s3_dates) * Scale) \div Len(growing_months)
        s2_clouds == CloudCovers(s2_features, 100)
        s2_cloud_mean == IF s2_clouds # <<>> THEN Mean(s2_clouds) ELSE 100 * Scale
        s2_gaps == _calculate_gaps(s2_dates)
        s3_gaps == _calculate_gaps(s3_dates)
        max_s2_gap == IF s2_gaps # <<>> THEN MaxSeq(s2_gaps) ELSE 999
        max_s3_gap == IF s3_gaps # <<>> THEN MaxSeq(s3_gaps) ELSE 999
        growing_season_days == Len(growing_season_months) * 30
        s2_weighted_gap_score ==
            IF s2_gaps # <<>>
            THEN Float10(_calculate_weighted_gap_score(s2_gaps, growing_season_days).value)
            ELSE 0
        s3_weighted_gap_score ==
            IF s3_gaps # <<>>
            THEN Float10(_calculate_weighted_gap_score(s3_gaps, growing_season_days).value)
            ELSE 0
        s2_gap_count == IF s2_gaps # <<>> THEN _calculate_gap_count(s2_gaps) ELSE 0
        overlap_data == _calculate_temporal_overlap(s2_dates, s3_dates)
        overlap_dates == Get(overlap_data, "s2_overlap_dates", <<>>)
        overlap_days == Len(overlap_dates)
        score == _calculate_suitability_score(
                     s2_density, s3_density, s2_cloud_mean, max_s2_gap, overlap_days,
                     s2_weighted_gap_score, s3_weighted_gap_score, s2_gap_count)
        temporal_info ==
            ("phenocam_start_date" :> DateOf(start_date))
            @@ ("phenocam_end_date" :> DateOf(end_date))
            @@ ("analysis_period_days" :> Days(end_date - start_date))
    IN  IF s2_ext.raised THEN s2_ext
        ELSE IF s3_ext.raised THEN s3_ext
        ELSE Return(temporal_info
                    @@ ("sentinel2_scenes" :> Len(s2_features))
                    @@ ("sentinel3_scenes" :> Len(s3_features))
                    @@ ("s2_scenes_per_month" :> Round2(s2_density))
                    @@ ("s3_scenes_per_month" :> Round2(s3_density))
                    @@ ("cloud_cover_mean" :> Round1(s2_cloud_mean))
                    @@ ("max_s2_gap_days" :> max_s2_gap)
                    @@ ("max_s3_gap_days" :> max_s3_gap)
                    @@ ("temporal_overlap_days" :> overlap_days)
                    @@ ("temporal_overlap_dates" :> overlap_dates)
                    @@ ("suitability_score" :> Some(Round2(score))))

----------------------------------------------------------------------------
(* satellite_query.py and phenocam_query.py: the file caches *)

\* The content of a cache file.  kind "none": no file; "undecodable": not
\* JSON (a truncated write among it); "non_object": JSON, but a list, a
\* string, a number or null; "object": a JSON object whose "timestamp" is
\* absent, an ISO string of the instant at, a string that is no ISO date, or
\* no string, and whose "result" is absent or the optional value v (None
\* for null).
Timestamp(k, at) == [k |-> k, at |-> at]
ResultField(k, v) == [k |-> k, v |-> v]
File(kind, ts, result) == [kind |-> kind, ts |-> ts, result |-> result]
NoFile == File("none", Timestamp("absent", 0), ResultField("absent", None))
Undecodable == File("undecodable", Timestamp("absent", 0), ResultField("absent", None))
NonObject == File("non_object", Timestamp("absent", 0), ResultField("absent", None))

\* json.dump({"timestamp": datetime.now().isoformat(), "result": result}, f)
Dump(at, result) == File("object", Timestamp("iso", at), ResultField("value", Some(result)))

\* What _get_cached_result did: returned value (None or a payload), or raised
\* exc, and the file it left.
Got(value, file) == [raised |-> FALSE, exc |-> "", value |-> value, file |-> file]
GotRaise(exc, file) == [raised |-> TRUE, exc |-> exc, value |-> None, file |-> file]

\* lines 158-179 of satellite_query.py, 92-113 of phenocam_query.py, which
\* differ in the validity test alone
GetCachedResult(file, expired) ==
    IF file.kind = "none" THEN Got(None, file)
    \* json.load raises JSONDecodeError: caught, the file removed
    ELSE IF file.kind = "undecodable" THEN Got(None, NoFile)
    \* cached_data["timestamp"] on a list, a string, a number or None raises
    \* TypeError, which the except clause does not name
    ELSE IF file.kind = "non_object" THEN GotRaise("TypeError", file)
    \* KeyError: caught, the file removed
    ELSE IF file.ts.k = "absent" THEN Got(None, NoFile)
    \* datetime.fromisoformat of a value that is no string raises TypeError
    ELSE IF file.ts.k = "nonstr" THEN GotRaise("TypeError", file)
    \* ValueError: caught, the file removed
    ELSE IF file.ts.k = "badstr" THEN Got(None, NoFile)
    ELSE IF expired THEN Got(None, file)
    \* KeyError: caught, the file removed
    ELSE IF file.result.k = "absent" THEN Got(None, NoFile)
    ELSE Got(file.result.v, file)

\* the validity test with >= for >
SatExpired_early(age) == Days(age) >= 7

\* (datetime.now() - cache_timestamp).days > 7
SatExpired(age) == Days(age) > 7
\* (datetime.now() - cache_timestamp).total_seconds() > 24 * 3600
PhenExpired(age) == age * 3600 > 24 * 3600

SatelliteQuery_get_cached_result(file, at) == GetCachedResult(file, SatExpired(at - file.ts.at))
PhenoCamQuery_get_cached_result(file, at) == GetCachedResult(file, PhenExpired(at - file.ts.at))

\* How a write to the cache file ends: "ok"; "open_fails": open() raises, the
\* file as it was; "dump_fails": json.dump raises part way, a truncated file.
WriteOutcomes == {"ok", "open_fails", "dump_fails"}

\* the write without its try/except: a failure reaches the caller
_cache_result_unguarded(file, at, result, write) ==
    IF write = "ok" THEN [raised |-> FALSE, file |-> Dump(at, result)]
    ELSE IF write = "open_fails" THEN [raised |-> TRUE, file |-> file]
    ELSE [raised |-> TRUE, file |-> Undecodable]

\* lines 181-198 of satellite_query.py, 115-132 of phenocam_query.py
_cache_result(file, at, result, write) ==
    IF write = "ok" THEN [raised |-> FALSE, file |-> Dump(at, result)]
    ELSE IF write = "open_fails" THEN [raised |-> FALSE, file |-> file]
    ELSE [raised |-> FALSE, file |-> Undecodable]

\* What the remote answered: a payload, or an error of the HTTP call.
FetchOk(payload) == [ok |-> TRUE, payload |-> Some(payload)]
FetchError == [ok |-> FALSE, payload |-> None]

\* What a lookup did: the object and key, the instant, the file before, the
\* file _get_cached_result left, hit or miss, whether a remote request was
\* issued and its answer, how the write ended, the file after, and what the
\* caller got.
Lookup(obj, key, at, before, got, hit, miss, requested, fetch, write, after, ret) ==
    [obj |-> obj, key |-> key, at |-> at, file_before |-> before,
     file_after_get |-> got.file, hit |-> hit, miss |-> miss,
     requested |-> requested, fetch |-> fetch, write |-> write,
     file_after |-> after, ret |-> ret]
NoLookup == [obj |-> "none"]

\* the lookup with the cache file opened for writing before the request is
\* made: a request that fails leaves an empty file
CachedLookup_file_opened_first(obj, key, at, file, got, fetch, write, result) ==
    IF got.raised
    THEN Lookup(obj, key, at, file, got, FALSE, FALSE, FALSE, FetchError, "none",
                got.file, Raise(got.exc))
    ELSE IF got.value # None
    THEN Lookup(obj, key, at, file, got, TRUE, FALSE, FALSE, FetchError, "none",
                got.file, Return(got.value[1]))
    ELSE IF ~fetch.ok
    THEN Lookup(obj, key, at, file, got, FALSE, TRUE, TRUE, fetch, "none",
                Undecodable, Raise("HTTPError"))
    ELSE LET written == _cache_result(got.file, at, result, write)
         IN  Lookup(obj, key, at, file, got, FALSE, TRUE, TRUE, fetch, write,
                    written.file,
                    IF written.raised THEN Raise("OSError") ELSE Return(result))

\* The body both lookups share after the key is made: satellite_query.py
\* lines 73-128, phenocam_query.py lines 32-80.  result is what the caller gets
\* and what is stored when the remote answers.
CachedLookup(obj, key, at, file, got, fetch, write, result) ==
    IF got.raised
    THEN Lookup(obj, key, at, file, got, FALSE, FALSE, FALSE, FetchError, "none",
                got.file, Raise(got.exc))
    ELSE IF got.value # None
    THEN Lookup(obj, key, at, file, got, TRUE, FALSE, FALSE, FetchError, "none",
                got.file, Return(got.value[1]))
    ELSE IF ~fetch.ok
    THEN Lookup(obj, key, at, file, got, FALSE, TRUE, TRUE, fetch, "none",
                got.file, Raise("HTTPError"))
    ELSE LET written == _cache_result(got.file, at, result, write)
         IN  Lookup(obj, key, at, file, got, FALSE, TRUE, TRUE, fetch, write,
                    written.file,
                    IF written.raised THEN Raise("OSError") ELSE Return(result))

\* A coordinate is an integer count of 1/Degree degree; round(lat, 4) of it
Degree == 10 ^ 5
Round4(x) == (x + 5) \div 10

max_cloud_cover == 30

\* SatelliteQuery._create_cache_key: the md5 of these values stands for them
SatelliteQuery_create_cache_key(lat, lon, start_date, end_date, collection, limit) ==
    <<Round4(lat), Round4(lon), start_date, end_date, collection, limit, max_cloud_cover>>

\* PhenoCamQuery._create_cache_key: one key, of the API URL and the bounds
PhenoCamQuery_create_cache_key == <<"https://phenocam.nau.edu/api/cameras/", 35, 71, -10, 40>>

\* SatelliteQuery.search_satellite_data_daterange, on the file of its key
search_satellite_data_daterange(q, file, at, fetch, write) ==
    LET cache_key == SatelliteQuery_create_cache_key(
                         q.lat, q.lon, q.start_date, q.end_date, q.collection, q.limit)
        cached_result == SatelliteQuery_get_cached_result(file, at)
        \* result = response.json()
        result == IF fetch.ok THEN fetch.payload[1] ELSE None
    IN  CachedLookup("satellite", cache_key, at, file, cached_result, fetch, write, result)

\* lines 60-75 of phenocam_query.py: the active sites within EUROPE_BOUNDS
european_locations(all_cameras) ==
    LET InEurope(site) ==
            /\ site.active
            /\ 35 * Degree <= site.Lat /\ site.Lat <= 71 * Degree
            /\ -10 * Degree <= site.Lon /\ site.Lon <= 40 * Degree
        kept == SelectSeq(all_cameras, InEurope)
    IN  [i \in DOMAIN kept |->
            [sitename |-> kept[i].Sitename, lat |-> kept[i].Lat, lon |-> kept[i].Lon,
             date_first |-> kept[i].date_first, date_last |-> kept[i].date_last]]

\* PhenoCamQuery.get_all_locations
get_all_locations(file, at, fetch, write) ==
    LET cache_key == PhenoCamQuery_create_cache_key
        cached_result == PhenoCamQuery_get_cached_result(file, at)
        result == IF fetch.ok THEN european_locations(fetch.payload[1]) ELSE None
    IN  CachedLookup("phenocam", cache_key, at, file, cached_result, fetch, write, result)

----------------------------------------------------------------------------
(* core.py, evaluate_site_by_seasons lines 530-548: the season window *)

\* the growing season months and one buffer month on each side
season_months_of(growing_months) ==
    LET months == Range(growing_months)
        min_month == CHOOSE m \in months : \A n \in months : m <= n
        max_month == CHOOSE m \in months : \A n \in months : m >= n
        buffer_months == (IF min_month > 1 THEN {min_month - 1} ELSE {})
                         \cup (IF max_month < 12 THEN {max_month + 1} ELSE {})
        all == months \cup buffer_months
    IN  [i \in 1..Cardinality(all) |->
            CHOOSE m \in all : Cardinality({n \in all : n < m}) = i - 1]

SeasonWindow ==
    LET months == season_months_of(growing_season_months)
    IN  [season_start |-> DateTime(months[1], 1, 0),
         season_end |-> DateTime(months[Len(months)], 28, 0),
         season_months |-> months]

----------------------------------------------------------------------------
(* get_indices.py: outliers and statistics of an NDVI time series *)

\* An NDVI value is an integer count of 1/Ndvi (round(avg_ndvi, 4)); the date
\* of an entry is the calendar day of its YYYY-MM-DD text, for which
\* datetime.fromisoformat(text).date().isoformat() gives the text back.
Ndvi == 10 ^ 4
ndvi_floor == 1000
NdviEntry(date, ndvi) == [date |-> date, ndvi |-> ndvi]

\* list.sort(key=lambda x: x[0]): stable insertion sort by date
RECURSIVE insert_by_date(_, _)
insert_by_date(x, s) ==
    IF s = <<>> THEN <<x>>
    ELSE IF x.date < s[Len(s)].date
    THEN insert_by_date(x, SubSeq(s, 1, Len(s) - 1)) \o <<s[Len(s)]>>
    ELSE s \o <<x>>
RECURSIVE sort_by_date(_)
sort_by_date(s) ==
    IF s = <<>> THEN <<>>
    ELSE insert_by_date(s[Len(s)], sort_by_date(SubSeq(s, 1, Len(s) - 1)))

\* lines 85-95: the entries with a value, by date
valid_data(ndvi_data) ==
    LET HasValue(d) == d.ndvi # None
        kept == SelectSeq(ndvi_data, HasValue)
    IN  sort_by_date([i \in DOMAIN kept |-> [date |-> kept[i].date, ndvi |-> kept[i].ndvi[1]]])

\* lines 101-109: the values at or above the floor dated within
\* window_days // 2 days of the target date
window_values(valid, target_date, window_days) ==
    LET window_start == target_date - window_days \div 2
        window_end == target_date + window_days \div 2
        InWindow(d) == window_start <= d.date /\ d.date <= window_end /\ d.ndvi >= ndvi_floor
        kept == SelectSeq(valid, InWindow)
    IN  [i \in DOMAIN kept |-> kept[i].ndvi]

\* np.percentile(a, q) with linear interpolation between the two closest
\* ranks, at a hundred times the resolution of its values
np_percentile(a, q) ==
    LET s == sorted(a)
        pos == (Len(s) - 1) * q
        lo == pos \div 100 + 1
        hi == Min(lo + 1, Len(s))
    IN  s[lo] * 100 + (s[hi] - s[lo]) * (pos % 100)

\* lines 98-114: the envelope of every date that has one
upper_envelopes(valid, window_days, percentile) ==
    LET dated == {valid[i].date : i \in DOMAIN valid}
        with == {d \in dated : window_values(valid, d, window_days) # <<>>}
    IN  [d \in with |-> np_percentile(window_values(valid, d, window_days), percentile)]

\* the flag of one entry without the test against the floor
is_outlier_envelope_only(d, envelopes, threshold_below) ==
    IF d.ndvi = None THEN FALSE
    ELSE IF d.date \in DOMAIN envelopes
    THEN envelopes[d.date] - d.ndvi[1] * 100 > threshold_below * 100
    ELSE FALSE

\* the flag of one entry with the envelope test not strict
is_outlier_nonstrict(d, envelopes, threshold_below) ==
    IF d.ndvi = None THEN FALSE
    ELSE IF d.ndvi[1] < ndvi_floor THEN TRUE
    ELSE IF d.date \in DOMAIN envelopes
    THEN envelopes[d.date] - d.ndvi[1] * 100 >= threshold_below * 100
    ELSE FALSE

\* lines 119-135: the flag of one entry
is_outlier(d, envelopes, threshold_below) ==
    IF d.ndvi = None THEN FALSE
    ELSE IF d.ndvi[1] < ndvi_floor THEN TRUE
    ELSE IF d.date \in DOMAIN envelopes
    THEN envelopes[d.date] - d.ndvi[1] * 100 > threshold_below * 100
    ELSE FALSE

\* the flags in the order of the dates of the entries, not in that of the input
detect_outliers_in_date_order(ndvi_data, window_days, percentile, threshold_below) ==
    LET by_date == sort_by_date(ndvi_data)
        envelopes == upper_envelopes(valid_data(ndvi_data), window_days, percentile)
    IN  [i \in DOMAIN by_date |-> is_outlier(by_date[i], envelopes, threshold_below)]

detect_outliers_upper_envelope(ndvi_data, window_days, percentile, threshold_below) ==
    LET valid == valid_data(ndvi_data)
        envelopes == upper_envelopes(valid, window_days, percentile)
    IN  IF valid = <<>> THEN [i \in DOMAIN ndvi_data |-> FALSE]
        ELSE [i \in DOMAIN ndvi_data |-> is_outlier(ndvi_data[i], envelopes, threshold_below)]

\* sorted(set(...)) of integers
sorted_set(S) ==
    [i \in 1..Cardinality(S) |-> CHOOSE d \in S : Cardinality({e \in S : e < d}) = i - 1]

\* round(x, 4) and round(x, 2) of the quotient a / b of non-negative integers,
\* the first in units of 1/Ndvi when a is, the second in hundredths
RoundDiv(a, b) == (2 * a + b) \div (2 * b)

\* get_indices.calculate_gaps: (max gap, gap count, score in hundredths)
calculate_gaps(dates, threshold_days) ==
    LET unique_dates == sorted_set(Range(dates))
        all_gaps == [i \in 1..(Len(unique_dates) - 1) |-> unique_dates[i + 1] - unique_dates[i]]
        Counted(g) == g > threshold_days
        gaps == SelectSeq(all_gaps, Counted)
        squares == [i \in DOMAIN gaps |-> gaps[i] * gaps[i]]
    IN  IF Len(dates) < 2 \/ Len(unique_dates) < 2 THEN <<0, 0, 0>>
        ELSE <<IF gaps = <<>> THEN 0 ELSE MaxSeq(gaps),
               Len(gaps),
               IF gaps = <<>> THEN 0
               ELSE RoundDiv(SumSeq(squares) * 100, Len(unique_dates) - 1)>>

RECURSIVE MinSeq(_)
MinSeq(s) == IF Len(s) = 1 THEN s[1] ELSE Min(Head(s), MinSeq(Tail(s)))

\* lines 224-251: the statistics over the entries picked by Used, and the
\* series with the flag added to every entry that has a value
ndvi_stats(ndvi_series, outlier_flags, used) ==
    LET ndvi_values == [i \in DOMAIN used |-> ndvi_series[used[i]].ndvi[1]]
        used_dates == [i \in DOMAIN used |-> ndvi_series[used[i]].date]
        gap_stats == calculate_gaps(used_dates, 3)
        some == ndvi_values # <<>>
    IN  [ndvi_time_series |->
            [i \in DOMAIN ndvi_series |->
                IF ndvi_series[i].ndvi # None
                THEN [date |-> ndvi_series[i].date, ndvi |-> ndvi_series[i].ndvi,
                      outlier |-> outlier_flags[i]]
                ELSE ndvi_series[i]],
         ndvi_observations |-> Len(ndvi_values),
         ndvi_mean |-> IF some THEN RoundDiv(SumSeq(ndvi_values), Len(ndvi_values)) ELSE 0,
         ndvi_min |-> IF some THEN MinSeq(ndvi_values) ELSE 0,
         ndvi_max |-> IF some THEN MaxSeq(ndvi_values) ELSE 0,
         ndvi_max_s2_gap_days |-> gap_stats[1],
         ndvi_s2_gap_count |-> gap_stats[2],
         ndvi_s2_weighted_gap_score |-> gap_stats[3],
         ndvi_range |-> IF some THEN MaxSeq(ndvi_values) - MinSeq(ndvi_values) ELSE 0]

\* the positions of a sequence that satisfy a flag sequence, ascending
RECURSIVE positions(_, _)
positions(keep, n) ==
    IF n = 0 THEN <<>>
    ELSE positions(keep, n - 1) \o (IF keep[n] THEN <<n>> ELSE <<>>)

\* the statistics taken over every entry with a value, flagged or not
calculate_ndvi_from_series_flagged_too(ndvi_series, window_days, percentile, threshold_below) ==
    LET outlier_flags == detect_outliers_upper_envelope(
                             ndvi_series, window_days, percentile, threshold_below)
        keep == [i \in DOMAIN ndvi_series |-> ndvi_series[i].ndvi # None]
    IN  ndvi_stats(ndvi_series, outlier_flags, positions(keep, Len(ndvi_series)))

\* window_days, percentile and threshold_below are what load_config() holds
\* (lines 212-215)
calculate_ndvi_from_series(ndvi_series, window_days, percentile, threshold_below) ==
    LET outlier_flags == detect_outliers_upper_envelope(
                             ndvi_series, window_days, percentile, threshold_below)
        keep == [i \in DOMAIN ndvi_series |->
                    ndvi_series[i].ndvi # None /\ ~outlier_flags[i]]
    IN  ndvi_stats(ndvi_series, outlier_flags, positions(keep, Len(ndvi_series)))

----------------------------------------------------------------------------
(* The calculations on their own: inputs drawn from bounded sets *)

\* S2 records: out of season, two instants of one day, two days later, a later
\* week, and a record without a datetime
S2Samples ==
    { Feature(DateTime(2, 10, 10), Some(10)),
      Feature(DateTime(6, 1, 1), Some(0)),
      Feature(DateTime(6, 1, 23), None),
      Feature(DateTime(6, 3, 1), Some(20)),
      Feature(DateTime(6, 10, 0), Some(90)),
      FeatureNoDatetime }
S3Samples ==
    { Feature(DateTime(2, 10, 10), None),
      Feature(DateTime(6, 2, 12), Some(5)),
      Feature(DateTime(6, 20, 0), Some(20)) }
\* the records that replace one sensor's in the second evaluation
AltFeatures ==
    { <<>>,
      <<Feature(DateTime(6, 5, 0), Some(0)), Feature(DateTime(7, 25, 6), Some(0))>> }

\* the window evaluate_site_by_seasons builds, and one whose ends coincide
SeasonWindows ==
    { SeasonWindow,
      [season_start |-> DateTime(6, 1, 0), season_end |-> DateTime(6, 1, 0),
       season_months |-> <<6>>] }

ScoreInputs ==
    [kind : {"score"},
     s2_density : {0, 500, 2999, 3000, 12000},
     s3_density : {0, 1500, 2000, 9000},
     cloud_mean : {0, 20000, 60000, 80000, 100000},
     max_gap : {0, 2, 29, 30, 999},
     overlap_days : {0, 7},
     s2_weighted_gap_score : {0, 77, 2000, 50000},
     s3_weighted_gap_score : {0, 900},
     gap_count : {0, 1, 40}]

SeasonInputs ==
    [kind : {"season"},
     s2_features : SeqUpTo(S2Samples, MaxFeatures),
     s3_features : SeqUpTo(S3Samples, MaxFeatures),
     window : SeasonWindows]

GapInputs ==
    [kind : {"gaps"},
     features : SeqUpTo(S2Samples \ {FeatureNoDatetime}, MaxFeatures),
     window : SeasonWindows]

SiteInputs ==
    [kind : {"site"},
     s2_features : SeqUpTo(S2Samples, MaxFeatures),
     s3_features : SeqUpTo(S3Samples, MaxFeatures)]

\* NDVI entries: without a value, below the floor, the largest of its day,
\* 0.15 and more than 0.15 below it four days later, one at the edge of the
\* 30-day window and one far outside it
NdviSamples ==
    { NdviEntry(DateOf(DateTime(6, 1, 0)), None),
      NdviEntry(DateOf(DateTime(6, 1, 0)), Some(500)),
      NdviEntry(DateOf(DateTime(6, 1, 0)), Some(8000)),
      NdviEntry(DateOf(DateTime(6, 5, 0)), Some(6500)),
      NdviEntry(DateOf(DateTime(6, 5, 0)), Some(3000)),
      NdviEntry(DateOf(DateTime(6, 16, 0)), Some(9000)),
      NdviEntry(DateOf(DateTime(7, 20, 0)), Some(1000)) }

\* a series and the settings of the envelope: the defaults of lines 213-215
\* and one other value of each
NdviInputs ==
    [kind : {"outliers", "ndvi"},
     ndvi_data : SeqUpTo(NdviSamples, MaxEntries),
     window_days : {9, 30},
     percentile : {50, 80},
     threshold_below : {0, 1500}]

FeatureCollection(features) == ("features" :> features)

SeasonalOf(s2_features, s3_features, window) ==
    _calculate_seasonal_metrics(
        FeatureCollection(s2_features), FeatureCollection(s3_features),
        "site", 2023, window.season_start, window.season_end, window.season_months)

\* no call of process_ndvi under way
PoolIdle ==
    /\ sites = <<>>
    /\ futures = <<>>
    /\ completed = 0
    /\ ndvi_pc = "idle"

\* no worker at a shared cache directory, and no pool of NDVI tasks
RaceIdle ==
    /\ disk = [path |-> 0, inodes |-> <<>>]
    /\ workers = <<>>
    /\ PoolIdle

\* no call of DataFinder under way
RunIdle ==
    /\ pc = "idle"
    /\ run_exc = ""
    /\ locations = <<>>
    /\ site_i = 0
    /\ years = <<>>
    /\ seasonal_results = <<>>
    /\ results = <<>>
    /\ asked = <<>>

NotRun2 == [changed |-> "", s2_features |-> <<>>, s3_features |-> <<>>, out |-> NotRun]

CalcInit ==
    /\ \/ input \in ScoreInputs
       \/ input \in SeasonInputs
       \/ input \in SiteInputs
       \/ input \in GapInputs
       \/ input \in NdviInputs
    /\ output = NotRun
    /\ output2 = NotRun2
    /\ now = 0
    /\ sat_files = [k \in {} |-> NoFile]
    /\ phen_file = NoFile
    /\ sat_hits = 0 /\ sat_misses = 0
    /\ phen_hits = 0 /\ phen_misses = 0
    /\ last = [obj |-> "none"]
    /\ RunIdle
    /\ RaceIdle

CalcScore ==
    /\ input.kind = "score"
    /\ ~Ran(output)
    /\ output' = Return(_calculate_suitability_score(
                     input.s2_density, input.s3_density, input.cloud_mean,
                     input.max_gap, input.overlap_days, input.s2_weighted_gap_score,
                     input.s3_weighted_gap_score, input.gap_count))
    /\ UNCHANGED <<input, output2, cache_vars, run_vars, race_vars, pool_vars>>

CalcSeasonal ==
    /\ input.kind = "season"
    /\ ~Ran(output)
    /\ output' = SeasonalOf(input.s2_features, input.s3_features, input.window)
    /\ UNCHANGED <<input, output2, cache_vars, run_vars, race_vars, pool_vars>>

\* the same DataFinder evaluates the season again, one sensor's records changed
CalcSeasonalAgain ==
    /\ input.kind = "season"
    /\ Ran(output)
    /\ ~Ran(output2.out)
    /\ \E changed \in {"s2", "s3"}, alt \in AltFeatures :
        LET s2 == IF changed = "s2" THEN alt ELSE input.s2_features
            s3 == IF changed = "s3" THEN alt ELSE input.s3_features
        IN  output2' = [changed |-> changed, s2_features |-> s2, s3_features |-> s3,
                        out |-> SeasonalOf(s2, s3, input.window)]
    /\ UNCHANGED <<input, output, cache_vars, run_vars, race_vars, pool_vars>>

\* the records of a sensor without those of a month outside the season
in_season_only(features, months) ==
    LET InSeason(f) == ~f.has_dt \/ MonthOf(f.dt) \in Range(months)
    IN  SelectSeq(features, InSeason)

\* the same DataFinder evaluates the season again, the queries having
\* returned the in-season records only
CalcSeasonalInSeason ==
    /\ input.kind = "season"
    /\ Ran(output)
    /\ ~Ran(output2.out)
    /\ LET s2 == in_season_only(input.s2_features, input.window.season_months)
           s3 == in_season_only(input.s3_features, input.window.season_months)
       IN  output2' = [changed |-> "out of season", s2_features |-> s2,
                       s3_features |-> s3, out |-> SeasonalOf(s2, s3, input.window)]
    /\ UNCHANGED <<input, output, cache_vars, run_vars, race_vars, pool_vars>>

CalcSite ==
    /\ input.kind = "site"
    /\ ~Ran(output)
    /\ output' = _calculate_site_metrics(input.s2_features, input.s3_features,
                                         DateTime(1, 1, 0), DateTime(12, 31, 0))
    /\ UNCHANGED <<input, output2, cache_vars, run_vars, race_vars, pool_vars>>

\* the gaps the evaluation takes from a sensor's records (lines 640 and 663)
CalcGaps ==
    /\ input.kind = "gaps"
    /\ ~Ran(output)
    /\ output' = Return(_calculate_gaps(
                     _extract_growing_season_dates(
                         input.features, input.window.season_months).value))
    /\ UNCHANGED <<input, output2, cache_vars, run_vars, race_vars, pool_vars>>

CalcOutliers ==
    /\ input.kind = "outliers"
    /\ ~Ran(output)
    /\ output' = Return(detect_outliers_upper_envelope(
                     input.ndvi_data, input.window_days, input.percentile,
                     input.threshold_below))
    /\ UNCHANGED <<input, output2, cache_vars, run_vars, race_vars, pool_vars>>

CalcNdvi ==
    /\ input.kind = "ndvi"
    /\ ~Ran(output)
    /\ output' = Return(calculate_ndvi_from_series(
                     input.ndvi_data, input.window_days, input.percentile,
                     input.threshold_below))
    /\ UNCHANGED <<input, output2, cache_vars, run_vars, race_vars, pool_vars>>

CalcNext ==
    \/ CalcScore
    \/ CalcSeasonal
    \/ CalcSeasonalAgain
    \/ CalcSeasonalInSeason
    \/ CalcSite
    \/ CalcGaps
    \/ CalcOutliers
    \/ CalcNdvi

SpecCalc == CalcInit /\ [][CalcNext]_vars

----------------------------------------------------------------------------
(* The two caches under any sequence of lookups and clock advances *)

sentinel2 == "sentinel-2-l2a"
sentinel3 == "sentinel-3-olci-2-lfr-ntc"

Query(lat, lon, start_date, end_date, collection, limit) ==
    [lat |-> lat, lon |-> lon, start_date |-> start_date, end_date |-> end_date,
     collection |-> collection, limit |-> limit]
KeyOf(q) == SatelliteQuery_create_cache_key(
                q.lat, q.lon, q.start_date, q.end_date, q.collection, q.limit)

\* one site asked for both sensors
CacheQueries ==
    { Query(4903690, 1341470, SeasonWindow.season_start, SeasonWindow.season_end,
            sentinel2, 1000),
      Query(4903690, 1341470, SeasonWindow.season_start, SeasonWindow.season_end,
            sentinel3, 1000) }
CacheKeys == {KeyOf(q) : q \in CacheQueries}

\* what the STAC API may answer
SatPayloads ==
    { FeatureCollection(<<Feature(DateTime(6, 1, 1), Some(0))>>) }

Camera(name, lat, lon, active, date_first, date_last) ==
    [Sitename |-> name, Lat |-> lat, Lon |-> lon, active |-> active,
     date_first |-> date_first, date_last |-> date_last]
\* dates as the PhenoCam API writes them, and a text that is no date
d2023_04_01 == <<"2", "0", "2", "3", "-", "0", "4", "-", "0", "1">>
d2023_09_30 == <<"2", "0", "2", "3", "-", "0", "9", "-", "3", "0">>
d2024_09_30 == <<"2", "0", "2", "4", "-", "0", "9", "-", "3", "0">>
not_a_date == <<"n", "/", "a">>

\* cameras of the PhenoCam directory: one outside Europe, two in Europe with
\* one and with two years of images, one whose first date is no date
harvard == Camera("harvard", 4253780, -7217150, TRUE, d2023_04_01, d2024_09_30)
bavarian_forest == Camera("bavarian-forest", 4903690, 1341470, TRUE, d2023_04_01, d2023_09_30)
hyytiala == Camera("hyytiala", 6184740, 2429480, TRUE, d2023_04_01, d2024_09_30)
undated == Camera("undated", 4720000, 1130000, TRUE, not_a_date, d2023_09_30)

\* what the PhenoCam API may answer
PhenPayloads == { <<harvard, bavarian_forest>> }

\* the files a cache directory may hold when the program starts: entries
\* written at instant 0, whole or damaged
InitFiles(payload) ==
    { NoFile, Undecodable, NonObject,
      File("object", Timestamp("absent", 0), ResultField("value", Some(payload))),
      File("object", Timestamp("nonstr", 0), ResultField("value", Some(payload))),
      File("object", Timestamp("badstr", 0), ResultField("value", Some(payload))),
      File("object", Timestamp("iso", 0), ResultField("absent", None)),
      File("object", Timestamp("iso", 0), ResultField("value", None)),
      Dump(0, payload) }

\* the instants, in hours, at which the clock is read: the start, one day and
\* one hour more, seven days and one hour more, eight days
Instants == {0, 24, 25, 168, 169, 192}

CalcIdle ==
    /\ input = [kind |-> "none"]
    /\ output = NotRun
    /\ output2 = NotRun2

CacheInit ==
    /\ CalcIdle
    /\ now = 0
    /\ \/ /\ \E k \in CacheKeys, f \in InitFiles(FeatureCollection(<<>>)) :
                  sat_files = [j \in CacheKeys |-> IF j = k THEN f ELSE NoFile]
          /\ phen_file = NoFile
       \/ /\ sat_files = [j \in CacheKeys |-> NoFile]
          /\ phen_file \in InitFiles(<<>>)
    /\ sat_hits = 0 /\ sat_misses = 0
    /\ phen_hits = 0 /\ phen_misses = 0
    /\ last = NoLookup
    /\ RunIdle
    /\ RaceIdle

Tick ==
    /\ \E t \in Instants : t > now /\ now' = t
    /\ UNCHANGED <<calc_vars, run_vars, race_vars, pool_vars, sat_files, sat_hits, sat_misses,
                   phen_file, phen_hits, phen_misses, last>>

Count(b) == IF b THEN 1 ELSE 0
Lookups == sat_hits + sat_misses + phen_hits + phen_misses

SatLookup ==
    /\ Lookups < MaxLookups
    /\ \E q \in CacheQueries, payload \in SatPayloads, ok \in BOOLEAN,
          write \in WriteOutcomes :
        LET r == search_satellite_data_daterange(
                     q, sat_files[KeyOf(q)], now,
                     IF ok THEN FetchOk(payload) ELSE FetchError, write)
        IN  /\ sat_files' = [sat_files EXCEPT ![KeyOf(q)] = r.file_after]
            /\ sat_hits' = sat_hits + Count(r.hit)
            /\ sat_misses' = sat_misses + Count(r.miss)
            /\ last' = r
    /\ UNCHANGED <<calc_vars, run_vars, race_vars, pool_vars, now, phen_file, phen_hits, phen_misses>>

PhenLookup ==
    /\ Lookups < MaxLookups
    /\ \E payload \in PhenPayloads, ok \in BOOLEAN, write \in WriteOutcomes :
        LET r == get_all_locations(
                     phen_file, now,
                     IF ok THEN FetchOk(payload) ELSE FetchError, write)
        IN  /\ phen_file' = r.file_after
            /\ phen_hits' = phen_hits + Count(r.hit)
            /\ phen_misses' = phen_misses + Count(r.miss)
            /\ last' = r
    /\ UNCHANGED <<calc_vars, run_vars, race_vars, pool_vars, now, sat_files, sat_hits, sat_misses>>

CacheNext == Tick \/ SatLookup \/ PhenLookup

SpecCache == CacheInit /\ [][CacheNext]_vars

----------------------------------------------------------------------------
(* satellite_query.py: several workers, each with a SatelliteQuery of its    *)
(* own over the same cache directory, issue the same query.  Nothing locks   *)
(* the file, so the steps of search_satellite_data_daterange that touch it   *)
(* interleave.  The path <key>.json names an inode or nothing; a worker      *)
(* that opened the file holds its inode whatever the path names later.       *)

Workers == 1 .. MaxWorkers

\* the instants at which the workers run: with the entry of instant 0 fresh,
\* and eight days later, with that entry expired
RaceInstants == {0, 192}

Worker(at, handle, result, cache_hits, cache_misses, ret) ==
    [at |-> at, handle |-> handle, result |-> result,
     cache_hits |-> cache_hits, cache_misses |-> cache_misses, ret |-> ret]

\* the worker moves to the position at, the rest of it as it was
At(w, at) == [workers EXCEPT ![w].at = at]

RaceInit ==
    /\ CalcIdle
    /\ now \in RaceInstants
    /\ sat_files = [k \in {} |-> NoFile]
    /\ phen_file = NoFile
    /\ sat_hits = 0 /\ sat_misses = 0
    /\ phen_hits = 0 /\ phen_misses = 0
    /\ last = NoLookup
    /\ RunIdle
    /\ \E f \in InitFiles(FeatureCollection(<<>>)) :
           disk = IF f = NoFile THEN [path |-> 0, inodes |-> <<>>]
                  ELSE [path |-> 1, inodes |-> <<f>>]
    /\ workers = [w \in Workers |-> Worker("exists", 0, None, 0, 0, NotRun)]
    /\ PoolIdle

\* _get_cached_result line 162: if not cache_file.exists(): return None
WorkerExists(w) ==
    /\ workers[w].at = "exists"
    /\ workers' = At(w, IF disk.path = 0 THEN "request" ELSE "open")
    /\ UNCHANGED <<calc_vars, cache_vars, run_vars, pool_vars, disk>>

\* line 166: open(cache_file, "r"); FileNotFoundError is an OSError, which
\* the except clause of line 176 does not name
WorkerOpen(w) ==
    /\ workers[w].at = "open"
    /\ workers' = IF disk.path = 0
                  THEN [workers EXCEPT ![w].at = "raised",
                                       ![w].ret = Raise("FileNotFoundError")]
                  ELSE [workers EXCEPT ![w].at = "load", ![w].handle = disk.path]
    /\ UNCHANGED <<calc_vars, cache_vars, run_vars, pool_vars, disk>>

\* lines 167-174 and 75-83: json.load of what the inode holds now, the
\* validity test, and the hit counted and returned
WorkerLoad(w) ==
    /\ workers[w].at = "load"
    /\ LET file == disk.inodes[workers[w].handle]
           cached_result == SatelliteQuery_get_cached_result(file, now)
       IN  workers' =
               IF cached_result.raised
               THEN [workers EXCEPT ![w].at = "raised",
                                    ![w].ret = Raise(cached_result.exc)]
               ELSE IF cached_result.value # None
               THEN [workers EXCEPT ![w].at = "returned",
                                    ![w].cache_hits = @ + 1,
                                    ![w].ret = Return(cached_result.value[1])]
               ELSE IF cached_result.file = NoFile
               THEN At(w, "unlink")
               ELSE At(w, "request")
    /\ UNCHANGED <<calc_vars, cache_vars, run_vars, pool_vars, disk>>

\* lines 176-179: cache_file.unlink(missing_ok=True); return None
WorkerUnlink(w) ==
    /\ workers[w].at = "unlink"
    /\ disk' = [disk EXCEPT !.path = 0]
    /\ workers' = At(w, "request")
    /\ UNCHANGED <<calc_vars, cache_vars, run_vars, pool_vars>>

\* lines 89-114: the miss counted, the request posted, raise_for_status
WorkerRequest(w) ==
    /\ workers[w].at = "request"
    /\ \E payload \in SatPayloads, ok \in BOOLEAN :
           workers' = IF ok
                      THEN [workers EXCEPT ![w].at = "cache",
                                           ![w].cache_misses = @ + 1,
                                           ![w].result = Some(payload)]
                      ELSE [workers EXCEPT ![w].at = "raised",
                                           ![w].cache_misses = @ + 1,
                                           ![w].ret = Raise("HTTPError")]
    /\ UNCHANGED <<calc_vars, cache_vars, run_vars, pool_vars, disk>>

\* _cache_result line 191: open(cache_file, "w") empties the file the path
\* names, or makes a new one; until json.dump is through the file is no JSON
WorkerOpenForWrite(w) ==
    /\ workers[w].at = "cache"
    /\ LET inode == IF disk.path = 0 THEN Len(disk.inodes) + 1 ELSE disk.path
       IN  /\ disk' = [path |-> inode,
                       inodes |-> [i \in 1 .. Max(inode, Len(disk.inodes)) |->
                                      IF i = inode THEN Undecodable
                                      ELSE disk.inodes[i]]]
           /\ workers' = [workers EXCEPT ![w].at = "dump", ![w].handle = inode]
    /\ UNCHANGED <<calc_vars, cache_vars, run_vars, pool_vars>>

\* lines 192 and 128: json.dump into the open file, and return result
WorkerDump(w) ==
    /\ workers[w].at = "dump"
    /\ disk' = [disk EXCEPT !.inodes[workers[w].handle] =
                                Dump(now, workers[w].result[1])]
    /\ workers' = [workers EXCEPT ![w].at = "returned",
                                  ![w].ret = Return(workers[w].result[1])]
    /\ UNCHANGED <<calc_vars, cache_vars, run_vars, pool_vars>>

RaceNext ==
    \E w \in Workers :
        \/ WorkerExists(w)
        \/ WorkerOpen(w)
        \/ WorkerLoad(w)
        \/ WorkerUnlink(w)
        \/ WorkerRequest(w)
        \/ WorkerOpenForWrite(w)
        \/ WorkerDump(w)

SpecRace == RaceInit /\ [][RaceNext]_vars

----------------------------------------------------------------------------
(* satellite_query.py: search_satellite_data, the query of the days before  *)
(* now                                                                       *)

default_days_back == 30
default_limit == 10

\* SatelliteQuery.search_satellite_data lines 29-50, on the files of the
\* cache directory; at is what datetime.now() reads
search_satellite_data(lat, lon, collection, days_back, limit, files, at, fetch, write) ==
    LET collection_ == IF collection = None THEN sentinel2 ELSE collection[1]
        days_back_ == IF days_back = None THEN default_days_back ELSE days_back[1]
        limit_ == IF limit = None THEN default_limit ELSE limit[1]
        end_date == at
        start_date == end_date - days_back_ * 24
        q == Query(lat, lon, start_date, end_date, collection_, limit_)
        file == IF KeyOf(q) \in DOMAIN files THEN files[KeyOf(q)] ELSE NoFile
    IN  search_satellite_data_daterange(q, file, at, fetch, write)

\* an empty cache directory
SearchInit ==
    /\ CalcIdle
    /\ now = 0
    /\ sat_files = [k \in {} |-> NoFile]
    /\ phen_file = NoFile
    /\ sat_hits = 0 /\ sat_misses = 0
    /\ phen_hits = 0 /\ phen_misses = 0
    /\ last = NoLookup
    /\ RunIdle
    /\ RaceIdle

\* one call of search_satellite_data for the one site, at an instant the
\* clock has reached by then: the same reading as before or a later one
SatSearch ==
    /\ Lookups < MaxLookups
    /\ \E at \in Instants, collection \in {None, Some(sentinel3)},
          days_back \in {None, Some(default_days_back)},
          payload \in SatPayloads, ok \in BOOLEAN, write \in WriteOutcomes :
        LET r == search_satellite_data(
                     4903690, 1341470, collection, days_back, None, sat_files, at,
                     IF ok THEN FetchOk(payload) ELSE FetchError, write)
        IN  /\ at >= now
            /\ now' = at
            /\ sat_files' = (r.key :> r.file_after) @@ sat_files
            /\ sat_hits' = sat_hits + Count(r.hit)
            /\ sat_misses' = sat_misses + Count(r.miss)
            /\ last' = r
    /\ UNCHANGED <<calc_vars, run_vars, race_vars, pool_vars, phen_file, phen_hits, phen_misses>>

SearchNext == SatSearch

SpecSearch == SearchInit /\ [][SearchNext]_vars

----------------------------------------------------------------------------
(* get_indices.py: process_ndvi, the NDVI of the selected seasons computed  *)
(* by a pool of threads and written into data by the calling thread          *)

max_workers == 5

\* the years of the seasons of a site; a year stands for its text, the key
\* of the season
PoolYears == 2023 .. (2022 + MaxSeasons)
\* site a has a season for every year; the one season of site b has no end
\* date
PoolUnits == {<<"a", y>> : y \in PoolYears} \cup {<<"b", 2023>>}

\* the series Earth Engine may return for a season
PoolSeries ==
    { <<NdviEntry(DateOf(DateTime(6, 1, 0)), Some(8000)),
        NdviEntry(DateOf(DateTime(6, 16, 0)), Some(9000))>>,
      <<NdviEntry(DateOf(DateTime(6, 5, 0)), Some(6500))>> }

\* the fields process_ndvi writes, lines 340-350
NdviFields ==
    {"ndvi_mean", "ndvi_min", "ndvi_max", "ndvi_range", "ndvi_observations",
     "ndvi_time_series", "ndvi_max_s2_gap_days", "ndvi_s2_gap_count",
     "ndvi_s2_weighted_gap_score"}

\* a season record before the call: its dates, and the statistics of an
\* earlier run when there was one
SeasonRecord(unit, earlier) ==
    LET dates == IF unit[1] = "a"
                 THEN ("season_start_date" :> <<unit[2], 3, 1>>)
                      @@ ("season_end_date" :> <<unit[2], 10, 28>>)
                 ELSE ("season_start_date" :> <<unit[2], 3, 1>>)
        stats == calculate_ndvi_from_series(
                     <<NdviEntry(DateOf(DateTime(7, 1, 0)), Some(6000)),
                       NdviEntry(DateOf(DateTime(7, 9, 0)), Some(7000))>>, 30, 80, 1500)
    IN  IF earlier THEN [k \in NdviFields |-> stats[k]] @@ dates ELSE dates

\* lines 288-307: the tasks, one per selected season that has both dates
tasks_of(data, sites_config) ==
    { unit \in DOMAIN data :
        /\ sites_config[unit[1]] # {}
        /\ unit[2] \in sites_config[unit[1]]
        /\ "season_start_date" \in DOMAIN data[unit]
        /\ "season_end_date" \in DOMAIN data[unit] }

\* process_site_season lines 260-276, with what calculate_ndvi fetched or
\* with ee.Initialize or the fetch raising
process_site_season(site_id, year, ndvi_series, ok) ==
    IF ok
    THEN Return(<<site_id, year, calculate_ndvi_from_series(ndvi_series, 30, 80, 1500)>>)
    ELSE Raise("Exception")

\* the failed season with every statistic set back, not ndvi_range alone
season_failed_all_reset(season) ==
    [k \in DOMAIN season \cup NdviFields |->
        IF k \in NdviFields THEN 0 ELSE season[k]]

\* line 362: data["sites"][site_id]["seasons"][year]["ndvi_range"] = 0.0
season_failed(season) ==
    [k \in DOMAIN season \cup {"ndvi_range"} |->
        IF k = "ndvi_range" THEN 0 ELSE season[k]]

\* lines 338-350: the statistics written into the season record
season_updated(season, stats) ==
    [k \in DOMAIN season \cup NdviFields |->
        IF k \in NdviFields THEN stats[k] ELSE season[k]]

Future(state, outcome, handled) ==
    [state |-> state, outcome |-> outcome, handled |-> handled]

\* process_ndvi is called on data, with config.yaml holding sites_config
PoolInit ==
    /\ \E earlier \in BOOLEAN, sites_config \in [{"a", "b"} -> SUBSET PoolYears] :
        /\ sites = [unit \in PoolUnits |-> SeasonRecord(unit, earlier)]
        /\ input = [kind |-> "process_ndvi", sites_config |-> sites_config,
                    data |-> [unit \in PoolUnits |-> SeasonRecord(unit, earlier)]]
    /\ output = NotRun
    /\ output2 = NotRun2
    /\ now = 0
    /\ sat_files = [k \in {} |-> NoFile]
    /\ phen_file = NoFile
    /\ sat_hits = 0 /\ sat_misses = 0
    /\ phen_hits = 0 /\ phen_misses = 0
    /\ last = NoLookup
    /\ RunIdle
    /\ disk = [path |-> 0, inodes |-> <<>>]
    /\ workers = <<>>
    /\ futures = <<>>
    /\ completed = 0
    /\ ndvi_pc = "idle"

\* lines 287-331: the tasks built and submitted, or data returned at once
\* when there is none
PoolSubmit ==
    /\ ndvi_pc = "idle"
    /\ LET tasks == tasks_of(sites, input.sites_config)
       IN  /\ futures' = [unit \in tasks |-> Future("pending", NotRun, FALSE)]
           /\ ndvi_pc' = IF tasks = {} THEN "returned" ELSE "pool"
    /\ UNCHANGED <<calc_vars, cache_vars, run_vars, race_vars, sites, completed>>

\* a thread of the pool takes a pending task: at most max_workers run
TaskStart(unit) ==
    /\ ndvi_pc = "pool"
    /\ unit \in DOMAIN futures
    /\ futures[unit].state = "pending"
    /\ Cardinality({u \in DOMAIN futures : futures[u].state = "running"}) < max_workers
    /\ futures' = [futures EXCEPT ![unit].state = "running"]
    /\ UNCHANGED <<calc_vars, cache_vars, run_vars, race_vars, sites, completed, ndvi_pc>>

\* the thread returns from process_site_season or raises out of it
TaskFinish(unit) ==
    /\ ndvi_pc = "pool"
    /\ unit \in DOMAIN futures
    /\ futures[unit].state = "running"
    /\ \E ndvi_series \in PoolSeries, ok \in BOOLEAN :
           futures' = [futures EXCEPT ![unit] =
                          Future("finished",
                                 process_site_season(unit[1], unit[2], ndvi_series, ok),
                                 FALSE)]
    /\ UNCHANGED <<calc_vars, cache_vars, run_vars, race_vars, sites, completed, ndvi_pc>>

\* lines 333-362: as_completed yields a finished future and the calling
\* thread writes its result, or its failure, into data
TaskResult(unit) ==
    /\ ndvi_pc = "pool"
    /\ unit \in DOMAIN futures
    /\ futures[unit].state = "finished"
    /\ ~futures[unit].handled
    /\ LET result == futures[unit].outcome
       IN  sites' =
               IF ~result.raised
               THEN LET processed == <<result.value[1], result.value[2]>>
                    IN  [sites EXCEPT ![processed] =
                            season_updated(sites[processed], result.value[3])]
               ELSE [sites EXCEPT ![unit] = season_failed(sites[unit])]
    /\ completed' = completed + 1
    /\ futures' = [futures EXCEPT ![unit].handled = TRUE]
    /\ UNCHANGED <<calc_vars, cache_vars, run_vars, race_vars, ndvi_pc>>

\* line 364: every future was yielded, the executor is left, data returned
PoolReturn ==
    /\ ndvi_pc = "pool"
    /\ \A unit \in DOMAIN futures : futures[unit].handled
    /\ ndvi_pc' = "returned"
    /\ UNCHANGED <<calc_vars, cache_vars, run_vars, race_vars, sites, futures, completed>>

PoolNext ==
    \/ PoolSubmit
    \/ \E unit \in PoolUnits :
           \/ TaskStart(unit)
           \/ TaskFinish(unit)
           \/ TaskResult(unit)
    \/ PoolReturn

SpecPool == PoolInit /\ [][PoolNext]_vars

----------------------------------------------------------------------------
(* core.py: DataFinder.evaluate_site_by_seasons, evaluate_all_sites and      *)
(* evaluate_site_suitability                                                 *)

analysis_period_days == 365

\* the instant 0 of the clock is 1 January 2023, 00:00
this_year(at) == 2023 + at \div (365 * 24)

\* the cache directory as a function of the keys that have a file
FileAt(files, key) == IF key \in DOMAIN files THEN files[key] ELSE NoFile
WithFile(files, key, file) ==
    IF file = NoFile
    THEN [k \in DOMAIN files \ {key} |-> files[k]]
    ELSE [k \in DOMAIN files \cup {key} |-> IF k = key THEN file ELSE files[k]]

\* location.get("date_first") and location.get("date_last") both truthy
HasDates(location) == location.date_first # <<>> /\ location.date_last # <<>>

\* the years with the year of date_last left out: range(start, end)
years_of_exclusive(location, at) ==
    LET start_date == fromisoformat(location.date_first)
        end_date == fromisoformat(location.date_last)
        Years(y0, y1) == [i \in 1..(y1 - y0) |-> y0 + i - 1]
    IN  IF ~HasDates(location) THEN Return(<<this_year(at)>>)
        ELSE IF start_date.raised THEN start_date
        ELSE IF end_date.raised THEN end_date
        ELSE Return(Years(start_date.value.year, end_date.value.year))

\* lines 517-527: the years of a location, or the ValueError of a date that
\* does not parse
years_of(location, at) ==
    LET start_date == fromisoformat(location.date_first)
        end_date == fromisoformat(location.date_last)
        Years(y0, y1) == [i \in 1..(y1 - y0 + 1) |-> y0 + i - 1]
    IN  IF ~HasDates(location) THEN Return(<<this_year(at)>>)
        ELSE IF start_date.raised THEN start_date
        ELSE IF end_date.raised THEN end_date
        ELSE Return(Years(start_date.value.year, end_date.value.year))

\* the result of a season whose queries or metrics raised e, score at 0.0
SeasonErrorResult_zero(location, year, e) ==
    ("sitename" :> location.sitename)
    @@ ("lat" :> location.lat)
    @@ ("lon" :> location.lon)
    @@ ("growing_season_year" :> year)
    @@ ("error" :> e)
    @@ ("suitability_score" :> Some(0))

\* lines 604-621: the result of a season whose queries or metrics raised e;
\* the name of the exception stands for str(e)
SeasonErrorResult(location, year, e) ==
    ("sitename" :> location.sitename)
    @@ ("lat" :> location.lat)
    @@ ("lon" :> location.lon)
    @@ ("growing_season_year" :> year)
    @@ ("error" :> e)
    @@ ("suitability_score" :> None)

\* lines 586-596: the metrics with the metadata of the location
SeasonResult(location, year, metrics) ==
    ("lat" :> location.lat)
    @@ ("lon" :> location.lon)
    @@ ("growing_season_year" :> year)
    @@ metrics

SeasonQuery(location, year, collection) ==
    Query(location.lat, location.lon, <<year, SeasonWindow.season_start>>,
          <<year, SeasonWindow.season_end>>, collection, 1000)

\* What the queries of one result returned or raised; s3 is NotRun when the
\* S2 query raised.
Asked(op, s2, s3) == [op |-> op, s2 |-> s2, s3 |-> s3]
\* What evaluating one unit did: its result, what was asked, the cache
\* directory and the counters after it.
Evaluated(result, asked_, files, hits, misses) ==
    [result |-> result, asked |-> asked_, files |-> files, hits |-> hits, misses |-> misses]

\* a query through the cache directory, the cache written without failure
Ask(q, files, at, fetch) ==
    search_satellite_data_daterange(q, FileAt(files, KeyOf(q)), at, fetch, "ok")
\* the cache directory after the lookup l
After(files, l) == WithFile(files, l.key, l.file_after)

\* lines 586-621: the result once both queries have returned
SeasonOutcome(location, year, metrics) ==
    IF metrics.raised
    THEN SeasonErrorResult(location, year, metrics.exc)
    ELSE SeasonResult(location, year, metrics.value)

\* lines 575-621: the pass from the S3 lookup s3 on
season_after_s3(location, year, files, s2, s3) ==
    Evaluated(IF s3.ret.raised
              THEN SeasonErrorResult(location, year, s3.ret.exc)
              ELSE SeasonOutcome(location, year,
                       _calculate_seasonal_metrics(
                           s2.ret.value, s3.ret.value, location.sitename, year,
                           SeasonWindow.season_start, SeasonWindow.season_end,
                           SeasonWindow.season_months)),
              Asked("seasons", s2.ret, s3.ret), After(files, s3),
              Count(s2.hit) + Count(s3.hit), Count(s2.miss) + Count(s3.miss))

\* lines 563-621: the pass from the S2 lookup s2 on
season_after_s2(location, year, files, at, s3_fetch, s2) ==
    IF s2.ret.raised
    THEN Evaluated(SeasonErrorResult(location, year, s2.ret.exc),
                   Asked("seasons", s2.ret, NotRun), After(files, s2),
                   Count(s2.hit), Count(s2.miss))
    ELSE season_after_s3(location, year, After(files, s2), s2,
                         Ask(SeasonQuery(location, year, sentinel3),
                             After(files, s2), at, s3_fetch))

\* lines 545-621: one pass of the loop over the years
evaluate_season(location, year, files, at, s2_fetch, s3_fetch) ==
    season_after_s2(location, year, files, at, s3_fetch,
                    Ask(SeasonQuery(location, year, sentinel2), files, at, s2_fetch))

\* lines 191-198: the result of a site whose evaluation raised e
SiteErrorResult(location, e) ==
    ("sitename" :> location.sitename)
    @@ ("coordinates" :> <<location.lat, location.lon>>)
    @@ ("error" :> e)
    @@ ("suitability_score" :> None)

\* the hours from 1 January of the year first to the date d
HoursSince(first, d) == (d.year - first) * 365 * 24 + DateTime(d.month, d.day, 0)

\* lines 184-198: the result once both queries have returned
SiteOutcome(location, metrics) ==
    IF metrics.raised
    THEN SiteErrorResult(location, metrics.exc)
    ELSE ("sitename" :> location.sitename)
         @@ ("coordinates" :> <<location.lat, location.lon>>)
         @@ metrics.value

\* lines 160-198: the evaluation from the S3 lookup s3 on
site_after_s3(location, start_date, end_date, files, s2, s3) ==
    Evaluated(IF s3.ret.raised
              THEN SiteErrorResult(location, s3.ret.exc)
              ELSE SiteOutcome(location,
                       _calculate_site_metrics(
                           Get(s2.ret.value, "features", <<>>),
                           Get(s3.ret.value, "features", <<>>),
                           start_date, end_date)),
              Asked("suitability", s2.ret, s3.ret), After(files, s3),
              Count(s2.hit) + Count(s3.hit), Count(s2.miss) + Count(s3.miss))

\* lines 150-198: the evaluation from the S2 lookup s2 on
site_after_s2(location, start_date, end_date, year, files, at, s3_fetch, s2) ==
    IF s2.ret.raised
    THEN Evaluated(SiteErrorResult(location, s2.ret.exc),
                   Asked("suitability", s2.ret, NotRun), After(files, s2),
                   Count(s2.hit), Count(s2.miss))
    ELSE site_after_s3(location, start_date, end_date, After(files, s2), s2,
                       Ask(Query(location.lat, location.lon, <<year, start_date>>,
                                 <<year, end_date>>, sentinel3, 5000),
                           After(files, s2), at, s3_fetch))

\* lines 140-198: the evaluation of the period start_date to end_date, hours
\* counted from 1 January of year
site_period(location, start_date, end_date, year, files, at, s2_fetch, s3_fetch) ==
    site_after_s2(location, start_date, end_date, year, files, at, s3_fetch,
                  Ask(Query(location.lat, location.lon, <<year, start_date>>,
                            <<year, end_date>>, sentinel2, 2000),
                      files, at, s2_fetch))

\* lines 121-131: the period of a location with dates; a date that does not
\* parse is caught by the except clause of lines 189-198
site_dated(location, first, end, files, at, s2_fetch, s3_fetch) ==
    IF first.raised \/ end.raised
    THEN Evaluated(SiteErrorResult(location, "ValueError"),
                   Asked("suitability", NotRun, NotRun), files, 0, 0)
    ELSE site_period(location, HoursSince(first.value.year, first.value),
                     HoursSince(first.value.year, end.value), first.value.year,
                     files, at, s2_fetch, s3_fetch)

\* DataFinder.evaluate_site_suitability
evaluate_site_suitability(location, files, at, s2_fetch, s3_fetch) ==
    IF HasDates(location)
    THEN site_dated(location, fromisoformat(location.date_first),
                    fromisoformat(location.date_last), files, at, s2_fetch, s3_fetch)
    ELSE site_period(location, at - analysis_period_days * 24, at, this_year(at),
                     files, at, s2_fetch, s3_fetch)

----------------------------------------------------------------------------
(* DataFinder at work: one call of evaluate_all_sites, a site and a year at  *)
(* a time, or one call of evaluate_site_suitability                          *)

nodates == Camera("nodates", 5210000, 520000, TRUE, <<>>, <<>>)

\* what the PhenoCam API may answer to evaluate_all_sites
Directories ==
    { <<harvard, bavarian_forest, hyytiala>>,
      <<bavarian_forest, undated, hyytiala>>,
      <<nodates, bavarian_forest>> }

\* what the STAC API may answer to a Sentinel-2 query: an error, nothing, a
\* record out of season, two records in season, a record without a datetime
S2Answers ==
    { FetchError,
      FetchOk(FeatureCollection(<<>>)),
      FetchOk(FeatureCollection(<<Feature(DateTime(2, 10, 10), Some(10))>>)),
      FetchOk(FeatureCollection(<<Feature(DateTime(6, 1, 1), Some(0)),
                                  Feature(DateTime(6, 10, 0), Some(90))>>)),
      FetchOk(FeatureCollection(<<FeatureNoDatetime>>)) }
\* and to a Sentinel-3 query
S3Answers ==
    { FetchError,
      FetchOk(FeatureCollection(<<>>)),
      FetchOk(FeatureCollection(<<Feature(DateTime(6, 2, 12), Some(5))>>)) }

Init ==
    /\ CalcIdle
    /\ now = 0
    /\ sat_files = [k \in {} |-> NoFile]
    /\ phen_file = NoFile
    /\ sat_hits = 0 /\ sat_misses = 0
    /\ phen_hits = 0 /\ phen_misses = 0
    /\ last = NoLookup
    /\ RunIdle
    /\ RaceIdle

\* evaluate_all_sites lines 480-490: the locations, all or the first
\* max_locations of them (0 for None)
StartEvaluateAllSites ==
    /\ pc = "idle"
    /\ \E directory \in Directories, ok \in BOOLEAN, max_locations \in 0..MaxLocations :
        LET r == get_all_locations(
                     phen_file, now,
                     IF ok THEN FetchOk(directory) ELSE FetchError, "ok")
            found == r.ret.value
        IN  /\ phen_file' = r.file_after
            /\ phen_hits' = phen_hits + Count(r.hit)
            /\ phen_misses' = phen_misses + Count(r.miss)
            /\ IF r.ret.raised
               THEN /\ pc' = "raised"
                    /\ run_exc' = r.ret.exc
                    /\ UNCHANGED locations
               ELSE /\ pc' = "next_site"
                    /\ locations' = IF max_locations # 0
                                    THEN SubSeq(found, 1, Min(max_locations, Len(found)))
                                    ELSE found
                    /\ UNCHANGED run_exc
    /\ UNCHANGED <<calc_vars, race_vars, pool_vars, now, sat_files, sat_hits, sat_misses, last,
                   site_i, years, seasonal_results, results, asked>>

\* evaluate_all_sites line 491 and evaluate_site_by_seasons lines 517-543:
\* the next location and its years; a date that does not parse raises
\* through evaluate_all_sites
BeginSite ==
    /\ pc = "next_site"
    /\ site_i < Len(locations)
    /\ site_i' = site_i + 1
    /\ LET ys == years_of(locations[site_i + 1], now)
       IN  IF ys.raised
           THEN /\ pc' = "raised"
                /\ run_exc' = ys.exc
                /\ UNCHANGED years
           ELSE /\ pc' = "season"
                /\ years' = ys.value
                /\ UNCHANGED run_exc
    /\ seasonal_results' = <<>>
    /\ UNCHANGED <<calc_vars, race_vars, pool_vars, cache_vars, locations, results, asked>>

\* the result e.result of one unit joins the results of its site
RecordSeason(e) ==
    /\ seasonal_results' = Append(seasonal_results, e.result)
    /\ asked' = Append(asked, e.asked)
    /\ sat_files' = e.files
    /\ sat_hits' = sat_hits + e.hits
    /\ sat_misses' = sat_misses + e.misses

\* evaluate_site_by_seasons lines 545-621: one year of the location
EvaluateSeason ==
    /\ pc = "season"
    /\ years # <<>>
    /\ \E s2_fetch \in S2Answers, s3_fetch \in S3Answers :
        RecordSeason(evaluate_season(locations[site_i], Head(years), sat_files, now,
                                     s2_fetch, s3_fetch))
    /\ years' = Tail(years)
    /\ UNCHANGED <<calc_vars, race_vars, pool_vars, now, phen_file, phen_hits, phen_misses, last,
                   pc, run_exc, locations, site_i, results>>

\* evaluate_site_by_seasons line 623 and evaluate_all_sites line 503
EndSite ==
    /\ pc = "season"
    /\ years = <<>>
    /\ results' = results \o seasonal_results
    /\ seasonal_results' = <<>>
    /\ pc' = "next_site"
    /\ UNCHANGED <<calc_vars, race_vars, pool_vars, cache_vars, run_exc, locations, site_i, years, asked>>

\* evaluate_all_sites line 505
ReturnResults ==
    /\ pc = "next_site"
    /\ site_i = Len(locations)
    /\ pc' = "returned"
    /\ UNCHANGED <<calc_vars, race_vars, pool_vars, cache_vars, run_exc, locations, site_i, years,
                   seasonal_results, results, asked>>

\* the result e.result is what the call returns
RecordSuitability(location, e) ==
    /\ locations' = <<location>>
    /\ results' = <<e.result>>
    /\ asked' = <<e.asked>>
    /\ sat_files' = e.files
    /\ sat_hits' = sat_hits + e.hits
    /\ sat_misses' = sat_misses + e.misses

\* the locations evaluate_site_suitability may be given
SuitabilityLocations ==
    UNION { Range(european_locations(directory)) : directory \in Directories }

\* DataFinder.evaluate_site_suitability for one location
EvaluateSiteSuitability ==
    /\ pc = "idle"
    /\ \E location \in SuitabilityLocations, s2_fetch \in S2Answers, s3_fetch \in S3Answers :
        RecordSuitability(location,
            evaluate_site_suitability(location, sat_files, now, s2_fetch, s3_fetch))
    /\ pc' = "returned"
    /\ UNCHANGED <<calc_vars, race_vars, pool_vars, now, phen_file, phen_hits, phen_misses, last,
                   run_exc, site_i, years, seasonal_results>>

Next ==
    \/ StartEvaluateAllSites
    \/ BeginSite
    \/ EvaluateSeason
    \/ EndSite
    \/ ReturnResults
    \/ EvaluateSiteSuitability

Spec == Init /\ [][Next]_vars

----------------------------------------------------------------------------
(* Claims *)

ScoreField(r) == r["suitability_score"]
InUnitInterval(x) == 0 <= x /\ x <= Scale
ScoreInRange(r) == ScoreField(r) # None => InUnitInterval(ScoreField(r)[1])

(* C1: every suitability score lies in [0, 1]: the value the scorer returns  *)
(* for any non-negative inputs, and every non-null score stored by the       *)
(* seasonal and the site metrics, the 999 placeholder for a sensor without   *)
(* a max gap included.                                                       *)
C1_ScoreInUnitInterval ==
    /\ (input.kind = "score" /\ Ran(output)) => InUnitInterval(output.value)
    /\ (input.kind \in {"season", "site"} /\ Ran(output) /\ ~output.raised)
           => ScoreInRange(output.value)
    /\ (Ran(output2.out) /\ ~output2.out.raised) => ScoreInRange(output2.out.value)

\* a season scored above 0 with the placeholder standing in for the S3 max gap
C1_Witness ==
    /\ input.kind = "season"
    /\ Ran(output)
    /\ ~output.raised
    /\ "max_s3_gap_days" \in DOMAIN output.value
    /\ output.value["max_s3_gap_days"] = None
    /\ ScoreField(output.value)[1] > 0

S2GapFields == {"max_s2_gap_days", "s2_gap_count", "s2_weighted_gap_score"}
S3GapFields == {"max_s3_gap_days", "s3_gap_count", "s3_weighted_gap_score"}

(* C9: the gap fields of a sensor are computed from that sensor's records    *)
(* alone: when a DataFinder evaluates a season and then evaluates it again   *)
(* with the other sensor's records changed, every gap field of the unchanged *)
(* sensor that both results carry has the same value in both.                *)
C9_GapFieldsIndependent ==
    (Ran(output) /\ Ran(output2.out) /\ ~output.raised /\ ~output2.out.raised) =>
        LET a == output.value
            b == output2.out.value
            same == IF output2.changed = "s3" THEN S2GapFields ELSE S3GapFields
        IN  \A k \in same : (k \in DOMAIN a /\ k \in DOMAIN b) => a[k] = b[k]

\* the S3 records changed and with them the S3 max gap, the S2 max gap is a
\* positive number of days in both results
C9_Witness ==
    /\ Ran(output) /\ Ran(output2.out) /\ ~output.raised /\ ~output2.out.raised
    /\ output2.changed = "s3"
    /\ "max_s2_gap_days" \in DOMAIN output.value
    /\ "max_s2_gap_days" \in DOMAIN output2.out.value
    /\ output.value["max_s2_gap_days"] # None
    /\ output.value["max_s2_gap_days"][1] > 0
    /\ output.value["max_s3_gap_days"] # output2.out.value["max_s3_gap_days"]

\* the calendar days of the in-season records, ascending, each once
UniqueDays(features, months) ==
    LET days == {DateOf(features[i].dt) :
                    i \in {j \in DOMAIN features : MonthOf(features[j].dt) \in Range(months)}}
    IN  [i \in 1..Cardinality(days) |->
            CHOOSE d \in days : Cardinality({e \in days : e < d}) = i - 1]

(* C10: the gaps the evaluation uses are the day differences of consecutive  *)
(* unique calendar dates: n distinct dates give n-1 gaps, each the calendar  *)
(* difference of its two dates, none from two records of one day.            *)
C10_GapsOfUniqueDates ==
    (input.kind = "gaps" /\ Ran(output)) =>
        LET days == UniqueDays(input.features, input.window.season_months)
        IN  /\ Len(output.value) = Max(Len(days) - 1, 0)
            /\ \A i \in DOMAIN output.value : output.value[i] = days[i + 1] - days[i]


\* what the specification calls the TTL of an entry, in hours: 24 hours for
\* the location directory, 7 days for the imagery search
TTLHours(obj) == IF obj = "phenocam" THEN 24 ELSE 7 * 24

\* a step of the cache model that is a lookup: the clock stands still
LookupStep == now' = now /\ last'.obj # "none"
\* the lookup of the primed state repeats the one of the unprimed state
SameLookupAgain ==
    /\ last.obj # "none"
    /\ LookupStep
    /\ last'.obj = last.obj
    /\ last'.key = last.key
\* the lookup fetched a result and stored it
Stored(l) == l.obj # "none" /\ l.miss /\ l.fetch.ok /\ l.write = "ok"
\* the lookup fetched a result and failed to store it
StoreFailed(l) ==
    l.obj # "none" /\ l.miss /\ l.fetch.ok /\ l.write \in {"open_fails", "dump_fails"}
HitCounted ==
    IF last'.obj = "satellite"
    THEN sat_hits' = sat_hits + 1 /\ sat_misses' = sat_misses
    ELSE phen_hits' = phen_hits + 1 /\ phen_misses' = phen_misses

\* C4: when a lookup of either cache fetched and stored a result, the next
\* lookup with the same key inputs, made while the entry is no older than its
\* TTL, returns the stored payload, issues no remote request, and counts a
\* hit and no miss.
C4_SecondCallIsHit ==
    [][ (/\ Stored(last)
         /\ SameLookupAgain
         /\ last'.at - last.at <= TTLHours(last.obj))
        => (/\ last'.hit
            /\ ~last'.requested
            /\ last'.ret = last.ret
            /\ ~last'.miss
            /\ HitCounted) ]_vars
\* a hit on an entry a lookup of this behaviour wrote at a later instant than
\* the start, read at a later instant still
C4_Witness ==
    /\ last.obj # "none"
    /\ last.hit
    /\ last.file_before.kind = "object"
    /\ last.file_before.ts.k = "iso"
    /\ last.file_before.ts.at > 0
    /\ last.at > last.file_before.ts.at
    /\ last.ret = Return(last.file_before.result.v[1])

\* a whole entry: a timestamp that parses and a result that is not null
WholeEntry(file) ==
    /\ file.kind = "object"
    /\ file.ts.k = "iso"
    /\ file.result.k = "value"
    /\ file.result.v # None

\* C5: a lookup made when the entry is older than its TTL (24 hours, 7 days)
\* never returns the entry: it is a miss and the remote is asked again.
C5_NeverReturnedPastTTL ==
    (/\ last.obj # "none"
     /\ WholeEntry(last.file_before)
     /\ last.at - last.file_before.ts.at > TTLHours(last.obj))
    => (last.miss /\ last.requested /\ ~last.hit)

\* a stored entry that is malformed: undecodable, of the wrong shape, without
\* a timestamp or a result, or with a timestamp that is no ISO date string
Malformed(file) ==
    \/ file.kind \in {"undecodable", "non_object"}
    \/ /\ file.kind = "object"
       /\ \/ file.ts.k \in {"absent", "badstr", "nonstr"}
          \/ file.result.k = "absent"

\* C6: a lookup that finds a malformed entry treats it as absent: the file is
\* deleted, the remote is asked, the lookup raises nothing of its own and the
\* caller gets what the remote answered.
C6_MalformedIsAbsent ==
    (last.obj # "none" /\ Malformed(last.file_before))
    => (/\ last.file_after_get = NoFile
        /\ last.miss
        /\ last.requested
        /\ last.fetch.ok => ~last.ret.raised)

\* C7: a lookup whose write to the cache fails returns the fetched value and
\* raises nothing, and the next lookup with the same key inputs is a miss
\* that asks the remote again, a truncated file being removed by it.
C7_WriteFailureSwallowed ==
    /\ [](StoreFailed(last) =>
            /\ ~last.ret.raised
            /\ last.ret.value =
                 IF last.obj = "phenocam"
                 THEN european_locations(last.fetch.payload[1])
                 ELSE last.fetch.payload[1])
    /\ [][ (StoreFailed(last) /\ SameLookupAgain)
           => (/\ last'.miss
               /\ last'.requested
               /\ ~last'.hit
               /\ last.file_after.kind = "undecodable"
                    => last'.file_after_get = NoFile) ]_vars
\* a lookup whose write broke off part way and that returned the fetched value
C7_Witness ==
    /\ StoreFailed(last)
    /\ last.write = "dump_fails"
    /\ last.file_after = Undecodable
    /\ ~last.ret.raised


\* the results made so far, in the order of asked
AllResults == results \o seasonal_results
\* a remote query of the unit raised
QueryFailed(a) == a.s2.raised \/ a.s3.raised
FailureText(a) == IF a.s2.raised THEN a.s2.exc ELSE a.s3.exc
Numeric(score) == score # None

\* C2: when a satellite query raises while a (site, season) unit or a site is
\* evaluated, the result of that unit has a null suitability_score, never a
\* number, and an error field holding the text of the error.
C2_FailedQueryScoreNull ==
    \A i \in DOMAIN asked :
        QueryFailed(asked[i]) =>
            /\ AllResults[i]["suitability_score"] = None
            /\ ~Numeric(AllResults[i]["suitability_score"])
            /\ "error" \in DOMAIN AllResults[i]
            /\ AllResults[i]["error"] = FailureText(asked[i])
\* evaluate_all_sites has returned; the S2 query of one unit raised, the S3
\* query of another did, and a third unit has a number for its score
C2_Witness ==
    /\ pc = "returned"
    /\ \E i, j, k \in DOMAIN asked :
        /\ asked[i].op = "seasons"
        /\ asked[i].s2.raised
        /\ ~asked[j].s2.raised /\ asked[j].s3.raised
        /\ ~QueryFailed(asked[k])
        /\ Numeric(results[k]["suitability_score"])
        /\ results[i]["suitability_score"] = None
        /\ results[j]["error"] = "HTTPError"

\* both queries of the unit returned and neither holds a record of a season
\* month
NoSeasonRecords(a) ==
    /\ Ran(a.s2) /\ ~a.s2.raised
    /\ Ran(a.s3) /\ ~a.s3.raised
    /\ _extract_growing_season_dates(
           Get(a.s2.value, "features", <<>>), SeasonWindow.season_months) = Return(<<>>)
    /\ _extract_growing_season_dates(
           Get(a.s3.value, "features", <<>>), SeasonWindow.season_months) = Return(<<>>)
\* the fields the gap, cloud and overlap stages of the pipeline add
PipelineFields ==
    { "max_s2_gap_days", "s2_gap_count", "s2_weighted_gap_score", "s2_first_date",
      "s2_last_date", "max_s3_gap_days", "s3_gap_count", "s3_weighted_gap_score",
      "s3_first_date", "s3_last_date", "s2_cloud_cover_mean", "s2_cloud_cover_std",
      "s3_cloud_cover_mean", "s3_cloud_cover_std", "s2_overlap_dates",
      "s3_overlap_dates", "temporal_overlap_days", "s2_scenes_per_month",
      "s3_scenes_per_month" }

\* C3: a season whose two queries succeed without any in-season record gets
\* the short-circuit result: score exactly 0.0 and not null, the no-data
\* marker, none of the gap, cloud and overlap fields, and a score that differs
\* from the score of every unit whose query failed.
C3_NoDataShortCircuit ==
    \A i \in DOMAIN asked :
        (asked[i].op = "seasons" /\ NoSeasonRecords(asked[i])) =>
            /\ AllResults[i]["suitability_score"] = Some(0)
            /\ "error" \in DOMAIN AllResults[i]
            /\ AllResults[i]["error"] = NoDataMarker
            /\ DOMAIN AllResults[i] \cap PipelineFields = {}
            /\ \A j \in DOMAIN asked :
                   QueryFailed(asked[j]) =>
                       AllResults[j]["suitability_score"]
                           # AllResults[i]["suitability_score"]
\* a returned run with a no-data season, whose S2 query answered with a
\* record out of season, next to a season whose query failed
C3_Witness ==
    /\ pc = "returned"
    /\ \E i, j \in DOMAIN asked :
        /\ asked[i].op = "seasons"
        /\ NoSeasonRecords(asked[i])
        /\ asked[i].s2.value["features"] # <<>>
        /\ results[i]["sentinel2_scenes"] = 0
        /\ results[i]["suitability_score"] = Some(0)
        /\ QueryFailed(asked[j])

\* the units of a location: its years, none when a date does not parse
UnitsOf(location) ==
    IF years_of(location, now).raised THEN {}
    ELSE {<<location.sitename, y>> : y \in Range(years_of(location, now).value)}

\* C8: whatever raises while one unit is processed, a date of the site that
\* does not parse included, evaluate_all_sites is not aborted: it raises
\* only when the directory of locations cannot be had, before any site, and
\* when it returns every unit of every location is in the list.
C8_FailuresIsolated ==
    /\ pc = "raised" => site_i = 0
    /\ (pc = "returned" /\ \A i \in DOMAIN asked : asked[i].op = "seasons") =>
           \A l \in DOMAIN locations :
               \A u \in UnitsOf(locations[l]) :
                   \E r \in DOMAIN results :
                       /\ results[r]["sitename"] = u[1]
                       /\ results[r]["growing_season_year"] = u[2]

\* the number of records of a sensor that lie in the season's months
InSeasonCount(features, months) ==
    Cardinality({i \in DOMAIN features :
                    features[i].has_dt /\ MonthOf(features[i].dt) \in Range(months)})

\* the max gap field of a seasonal result follows the number of in-season
\* records: 0 for one record, None for no record
MaxGapOfFewDates(r, field, features, months) ==
    field \in DOMAIN r =>
        /\ InSeasonCount(features, months) = 1 => r[field] = Some(0)
        /\ InSeasonCount(features, months) = 0 => r[field] = None

(* C11: fewer than 2 dates give an empty gap list; in a seasonal result that *)
(* carries the max gap fields, the max gap of a sensor with exactly one      *)
(* in-season date is 0 and that of a sensor with no in-season date is None,  *)
(* which differs from 0.                                                     *)
C11_FewDatesNoGaps ==
    /\ (input.kind = "gaps" /\ Ran(output)
        /\ InSeasonCount(input.features, input.window.season_months) < 2)
           => output.value = <<>>
    /\ (input.kind = "season" /\ Ran(output) /\ ~output.raised) =>
           /\ MaxGapOfFewDates(output.value, "max_s2_gap_days",
                               input.s2_features, input.window.season_months)
           /\ MaxGapOfFewDates(output.value, "max_s3_gap_days",
                               input.s3_features, input.window.season_months)
    /\ (input.kind = "season" /\ Ran(output2.out) /\ ~output2.out.raised) =>
           /\ MaxGapOfFewDates(output2.out.value, "max_s2_gap_days",
                               output2.s2_features, input.window.season_months)
           /\ MaxGapOfFewDates(output2.out.value, "max_s3_gap_days",
                               output2.s3_features, input.window.season_months)
    /\ None # Some(0)

\* a season with one in-season S2 record and no in-season S3 record: the S2
\* max gap is 0, the S3 max gap is None
C11_Witness ==
    /\ input.kind = "season"
    /\ Ran(output)
    /\ ~output.raised
    /\ InSeasonCount(input.s2_features, input.window.season_months) = 1
    /\ InSeasonCount(input.s3_features, input.window.season_months) = 0
    /\ output.value["max_s2_gap_days"] = Some(0)
    /\ output.value["max_s3_gap_days"] = None

\* a sensor without a gap above the threshold has a weighted gap score of 0.0
NoCountedGapNoScore(r, count, score) ==
    (count \in DOMAIN r /\ r[count] = 0) => r[score] = 0

(* C12: the weighted gap score takes contributions only from gaps that       *)
(* strictly exceed the gap threshold: in every seasonal result a sensor      *)
(* whose gap count is 0, all its gaps being at or below the threshold, has   *)
(* the weighted gap score 0.0.                                               *)
C12_SmallGapsContributeNothing ==
    (input.kind = "season" /\ Ran(output) /\ ~output.raised) =>
        /\ NoCountedGapNoScore(output.value, "s2_gap_count", "s2_weighted_gap_score")
        /\ NoCountedGapNoScore(output.value, "s3_gap_count", "s3_weighted_gap_score")

\* every record of the sequence carries a datetime
AllDated(features) == \A i \in DOMAIN features : features[i].has_dt

(* C13: the weighted gap score never divides by zero: the seasonal metrics   *)
(* of a season whose start and end coincide (season length 0) are computed   *)
(* without an error for any records that carry their datetime, and the       *)
(* weighted gap scores in them are 0.0.                                      *)
C13_NoDivisionByZero ==
    (/\ input.kind = "season"
     /\ Ran(output)
     /\ input.window.season_start = input.window.season_end
     /\ AllDated(input.s2_features)
     /\ AllDated(input.s3_features)) =>
        /\ ~output.raised
        /\ Get(output.value, "s2_weighted_gap_score", 0) = 0
        /\ Get(output.value, "s3_weighted_gap_score", 0) = 0

\* entry i of the series has a value, and the value is below the floor
HasNdvi(d) == d.ndvi # None
BelowFloor(d) == HasNdvi(d) /\ d.ndvi[1] < ndvi_floor

(* C14: every entry with a value below the implausibility floor of 0.1 is    *)
(* flagged as an outlier by detect_outliers_upper_envelope, whatever the     *)
(* rest of the series and whatever the window, percentile and threshold.     *)
C14_BelowFloorAlwaysFlagged ==
    (input.kind = "outliers" /\ Ran(output)) =>
        \A i \in DOMAIN input.ndvi_data :
            BelowFloor(input.ndvi_data[i]) => output.value[i]

\* a value below the floor flagged next to a value of the same day that is
\* not, under the widest threshold
C14_Witness ==
    /\ input.kind = "outliers"
    /\ Ran(output)
    /\ input.threshold_below = 1500
    /\ \E i, j \in DOMAIN input.ndvi_data :
        /\ BelowFloor(input.ndvi_data[i])
        /\ output.value[i]
        /\ input.ndvi_data[j].date = input.ndvi_data[i].date
        /\ HasNdvi(input.ndvi_data[j])
        /\ ~output.value[j]

\* entry j counts for the envelope of entry i: it has a value at or above the
\* floor and is dated within half a window of entry i
InWindowOf(data, i, j, window_days) ==
    /\ HasNdvi(data[j])
    /\ data[j].ndvi[1] >= ndvi_floor
    /\ 2 * Abs(data[j].date - data[i].date) <= window_days

\* the envelope of entry i: the percentile of the values that count for it
EnvelopeOf(data, i, window_days, percentile) ==
    LET counted == positions([j \in DOMAIN data |-> InWindowOf(data, i, j, window_days)], Len(data))
    IN  np_percentile([k \in DOMAIN counted |-> data[counted[k]].ndvi[1]], percentile)

\* entry i holds the largest value that counts for its envelope
LargestInWindow(data, i, window_days) ==
    \A j \in DOMAIN data :
        InWindowOf(data, i, j, window_days) => data[j].ndvi[1] <= data[i].ndvi[1]

(* C15: an entry with a value at or above the floor is flagged exactly when  *)
(* the envelope of its date, the configured percentile of the values at or   *)
(* above the floor dated within half a window of it, exceeds its value by    *)
(* strictly more than threshold_below; so an entry that holds the largest    *)
(* value of its window is never flagged.                                     *)
C15_FlaggedIffBelowEnvelope ==
    (input.kind = "outliers" /\ Ran(output)) =>
        \A i \in DOMAIN input.ndvi_data :
            (HasNdvi(input.ndvi_data[i]) /\ ~BelowFloor(input.ndvi_data[i])) =>
                /\ output.value[i] <=>
                       (EnvelopeOf(input.ndvi_data, i, input.window_days, input.percentile)
                            - input.ndvi_data[i].ndvi[1] * 100
                        > input.threshold_below * 100)
                /\ LargestInWindow(input.ndvi_data, i, input.window_days)
                       => ~output.value[i]

\* two values at or above the floor in one window, the lower one flagged and
\* the larger one not
C15_Witness ==
    /\ input.kind = "outliers"
    /\ Ran(output)
    /\ \E i, j \in DOMAIN input.ndvi_data :
        /\ InWindowOf(input.ndvi_data, i, j, input.window_days)
        /\ ~BelowFloor(input.ndvi_data[i])
        /\ HasNdvi(input.ndvi_data[i])
        /\ output.value[i]
        /\ LargestInWindow(input.ndvi_data, j, input.window_days)
        /\ ~output.value[j]

\* the flag that belongs to entry i of the series
FlagOf(data, i, window_days, percentile, threshold_below) ==
    /\ HasNdvi(data[i])
    /\ \/ BelowFloor(data[i])
       \/ EnvelopeOf(data, i, window_days, percentile) - data[i].ndvi[1] * 100
              > threshold_below * 100

(* C16: detect_outliers_upper_envelope returns one flag per entry of its     *)
(* input, flag i being the flag of entry i whatever the order of the dates   *)
(* and also when dates repeat; the flag of an entry without a value is       *)
(* false, so every flag of a series without any value is false.              *)
C16_FlagsAlignedWithInput ==
    (input.kind = "outliers" /\ Ran(output)) =>
        /\ DOMAIN output.value = DOMAIN input.ndvi_data
        /\ \A i \in DOMAIN input.ndvi_data :
            /\ output.value[i] \in BOOLEAN
            /\ ~HasNdvi(input.ndvi_data[i]) => output.value[i] = FALSE
            /\ output.value[i] = FlagOf(input.ndvi_data, i, input.window_days,
                                        input.percentile, input.threshold_below)

\* a series whose dates descend and repeat, with an entry without a value in
\* front of a flagged entry and an unflagged entry behind it
C16_Witness ==
    /\ input.kind = "outliers"
    /\ Ran(output)
    /\ Len(input.ndvi_data) = 3
    /\ ~HasNdvi(input.ndvi_data[1])
    /\ input.ndvi_data[2].date > input.ndvi_data[3].date
    /\ input.ndvi_data[3].date = input.ndvi_data[1].date
    /\ output.value = <<FALSE, TRUE, FALSE>>

\* the entries the statistics are taken from: those with a value and no flag
Qualifying ==
    {i \in DOMAIN input.ndvi_data :
        /\ HasNdvi(input.ndvi_data[i])
        /\ ~FlagOf(input.ndvi_data, i, input.window_days, input.percentile,
                   input.threshold_below)}
QualifyingValues == {input.ndvi_data[i].ndvi[1] : i \in Qualifying}
QualifyingDates == {input.ndvi_data[i].date : i \in Qualifying}
\* the gaps of more than 3 days between neighbouring dates of those entries
QualifyingGaps ==
    {p \in QualifyingDates \X QualifyingDates :
        /\ p[2] - p[1] > 3
        /\ ~\E d \in QualifyingDates : p[1] < d /\ d < p[2]}
RECURSIVE SumOver(_, _)
SumOver(data, I) ==
    IF I = {} THEN 0
    ELSE LET i == CHOOSE k \in I : TRUE
         IN  data[i].ndvi[1] + SumOver(data, I \ {i})

(* C17: calculate_ndvi_from_series takes ndvi_observations, mean, min, max,  *)
(* range and the gap statistics from exactly the entries that have a value   *)
(* and are not flagged, and all of them are 0 when no entry qualifies; the   *)
(* ndvi_time_series it returns holds every input entry, those without a     *)
(* value and the flagged ones too, in the order of the input.                *)
C17_StatsOverUnflaggedValues ==
    (input.kind = "ndvi" /\ Ran(output)) =>
        LET stats == output.value
            n == Cardinality(Qualifying)
        IN  /\ stats.ndvi_observations = n
            /\ n = 0 => /\ stats.ndvi_mean = 0 /\ stats.ndvi_min = 0
                        /\ stats.ndvi_max = 0 /\ stats.ndvi_range = 0
            /\ n > 0 =>
                /\ stats.ndvi_min \in QualifyingValues
                /\ stats.ndvi_max \in QualifyingValues
                /\ \A v \in QualifyingValues : stats.ndvi_min <= v /\ v <= stats.ndvi_max
                /\ stats.ndvi_range = stats.ndvi_max - stats.ndvi_min
                /\ 2 * Abs(stats.ndvi_mean * n - SumOver(input.ndvi_data, Qualifying)) <= n
            /\ stats.ndvi_s2_gap_count = Cardinality(QualifyingGaps)
            /\ \A p \in QualifyingGaps : p[2] - p[1] <= stats.ndvi_max_s2_gap_days
            /\ \/ stats.ndvi_max_s2_gap_days = 0 /\ QualifyingGaps = {}
               \/ \E p \in QualifyingGaps : p[2] - p[1] = stats.ndvi_max_s2_gap_days
            /\ QualifyingGaps = {} => stats.ndvi_s2_weighted_gap_score = 0
            /\ DOMAIN stats.ndvi_time_series = DOMAIN input.ndvi_data
            /\ \A i \in DOMAIN input.ndvi_data :
                /\ stats.ndvi_time_series[i].date = input.ndvi_data[i].date
                /\ stats.ndvi_time_series[i].ndvi = input.ndvi_data[i].ndvi

\* a series of an entry without a value, a flagged entry and two entries the
\* statistics are taken from, more than 3 days apart
C17_Witness ==
    /\ input.kind = "ndvi"
    /\ Ran(output)
    /\ Len(input.ndvi_data) = 3
    /\ \E i \in DOMAIN input.ndvi_data :
        /\ HasNdvi(input.ndvi_data[i])
        /\ i \notin Qualifying
        /\ output.value.ndvi_time_series[i].outlier
    /\ output.value.ndvi_observations = 2
    /\ output.value.ndvi_s2_gap_count = 1
    /\ output.value.ndvi_range > 0

(* C18: an S2 density of exactly 0 gives the score 0.0 whatever the other    *)
(* inputs of the scorer are; a season and a site with S3 records in season   *)
(* but no S2 record in season are scored 0.0.                                *)
C18_NoPrimaryDataScoresZero ==
    /\ (input.kind = "score" /\ Ran(output) /\ input.s2_density = 0)
           => output.value = 0
    /\ (/\ input.kind = "season"
        /\ Ran(output) /\ ~output.raised
        /\ InSeasonCount(input.s2_features, input.window.season_months) = 0
        /\ InSeasonCount(input.s3_features, input.window.season_months) > 0)
           => ScoreField(output.value) = Some(0)
    /\ (/\ input.kind = "site"
        /\ Ran(output) /\ ~output.raised
        /\ InSeasonCount(input.s2_features, growing_season_months) = 0
        /\ InSeasonCount(input.s3_features, growing_season_months) > 0)
           => ScoreField(output.value) = Some(0)

\* a season of S3 records alone, with S2 records out of season that give a
\* cloud mean, scored 0.0 by the scorer and not as a season without data
C18_Witness ==
    /\ input.kind = "season"
    /\ Ran(output) /\ ~output.raised
    /\ input.s2_features # <<>>
    /\ output.value["sentinel2_scenes"] = 0
    /\ output.value["sentinel3_scenes"] = 2
    /\ "error" \notin DOMAIN output.value
    /\ ScoreField(output.value) = Some(0)

\* evaluating the unit raised: one of its queries did, or the metrics of what
\* the queries returned did
UnitRaised(a) ==
    \/ QueryFailed(a)
    \/ _calculate_seasonal_metrics(
           a.s2.value, a.s3.value, "", 2023, SeasonWindow.season_start,
           SeasonWindow.season_end, SeasonWindow.season_months).raised

(* C19: the result of a (site, season) unit carries an error field if and    *)
(* only if evaluating the unit raised; the result of a unit whose queries    *)
(* succeeded, the unit without any in-season record included, carries none.  *)
C19_ErrorOnlyOnFailure ==
    \A i \in DOMAIN asked :
        asked[i].op = "seasons" =>
            ("error" \in DOMAIN AllResults[i] <=> UnitRaised(asked[i]))

\* the datetimes of the records of a sensor that lie in the season's months
InSeasonDates(features, months) ==
    {features[i].dt : i \in {j \in DOMAIN features :
        features[j].has_dt /\ MonthOf(features[j].dt) \in Range(months)}}

\* the number of in-season S2 records within 3 days of an in-season S3 record
OverlapCount(s2_features, s3_features, months) ==
    Cardinality({i \in DOMAIN s2_features :
        /\ s2_features[i].has_dt
        /\ MonthOf(s2_features[i].dt) \in Range(months)
        /\ \E d \in InSeasonDates(s3_features, months) :
               Within3Days(s2_features[i].dt, d)})

(* C20: under the shipped configuration the overlap count of an evaluation,  *)
(* the number of overlap dates it reports and hands to the scorer, is the    *)
(* number of in-season S2 dates within 3 days of some in-season S3 date; it  *)
(* is at least 1 whenever there is such a pair.                              *)
C20_OverlapCounted ==
    /\ (input.kind = "season" /\ Ran(output) /\ ~output.raised) =>
           Len(Get(output.value, "s2_overlap_dates", <<>>))
               = OverlapCount(input.s2_features, input.s3_features,
                              input.window.season_months)
    /\ (input.kind = "site" /\ Ran(output) /\ ~output.raised) =>
           output.value["temporal_overlap_days"]
               = OverlapCount(input.s2_features, input.s3_features,
                              growing_season_months)

\* the metrics of a season that the records of other months must not change
SeasonMetricFields ==
    { "sentinel2_scenes", "sentinel3_scenes", "max_s2_gap_days", "max_s3_gap_days",
      "s2_gap_count", "s3_gap_count", "s2_weighted_gap_score", "s3_weighted_gap_score",
      "s2_cloud_cover_mean", "s2_cloud_cover_std", "s3_cloud_cover_mean",
      "s3_cloud_cover_std", "suitability_score" }

(* C21: records of a month outside the season months do not affect the       *)
(* metrics of the season: the scene counts, max gaps, gap counts, weighted   *)
(* gap scores, cloud cover statistics and the suitability score are the same *)
(* with such records among the inputs and without them.                      *)
C21_OutOfSeasonIgnored ==
    (/\ input.kind = "season"
     /\ output2.changed = "out of season"
     /\ ~output.raised /\ ~output2.out.raised) =>
        /\ DOMAIN output.value = DOMAIN output2.out.value
        /\ \A k \in SeasonMetricFields \cap DOMAIN output.value :
               output.value[k] = output2.out.value[k]

(* C22: evaluate_all_sites returns its results sorted by suitability score,  *)
(* best first: the scores of the returned list that are not null appear in   *)
(* non-increasing order.                                                     *)
C22_SortedByScore ==
    (pc = "returned" /\ \A i \in DOMAIN asked : asked[i].op = "seasons") =>
        \A i, j \in DOMAIN results :
            (/\ i < j
             /\ Numeric(results[i]["suitability_score"])
             /\ Numeric(results[j]["suitability_score"]))
                => results[i]["suitability_score"][1] >= results[j]["suitability_score"][1]

\* C23: every lookup of a query object records exactly one hit or one miss:
\* a lookup step raises cache_hits + cache_misses of the object it was made
\* on by one and leaves the counters of the other object alone.
C23_EveryLookupCounted ==
    [][ LookupStep =>
          IF last'.obj = "satellite"
          THEN /\ sat_hits' + sat_misses' = sat_hits + sat_misses + 1
               /\ phen_hits' = phen_hits /\ phen_misses' = phen_misses
          ELSE /\ phen_hits' + phen_misses' = phen_hits + phen_misses + 1
               /\ sat_hits' = sat_hits /\ sat_misses' = sat_misses ]_vars

\* C24: evaluate_all_sites raises only from the acquisition of the list of
\* locations: the one step that ends the call with an exception is its
\* first, the call of get_all_locations, and a call that raised has gathered
\* no location and no result.
C24_OnlyLocationsFailurePropagates ==
    [][ (pc # "raised" /\ pc' = "raised") =>
            /\ pc = "idle"
            /\ locations' = <<>>
            /\ results' = <<>> ]_vars

\* C25: without a lock, under every interleaving of the workers' steps on
\* the file of one query, no worker raises because of what another worker
\* did to the file: a worker raises only what it would raise alone, the error
\* of its own request or the TypeError of a malformed entry that was there
\* from the start, and a worker that returns returns a whole payload, the
\* stored one or a fetched one.
C25_NoWorkerFailsFromRace ==
    \A w \in DOMAIN workers :
        /\ workers[w].ret.raised => workers[w].ret.exc \in {"HTTPError", "TypeError"}
        /\ workers[w].at = "returned" =>
               workers[w].ret.value \in SatPayloads \cup {FeatureCollection(<<>>)}

\* the call of the primed state has the arguments of the call of the unprimed
\* state: the site, the collection, the limit and the number of days back
SameSearchAgain ==
    /\ last.obj = "satellite" /\ last'.obj = "satellite"
    /\ last'.key[1] = last.key[1] /\ last'.key[2] = last.key[2]
    /\ last'.key[5] = last.key[5] /\ last'.key[6] = last.key[6]
    /\ last'.key[4] - last'.key[3] = last.key[4] - last.key[3]

\* C26: of two calls of search_satellite_data with the same arguments, the
\* second made no more than 7 days after the first fetched and stored its
\* result, the second issues no remote request: it is a hit and returns
\* what the first returned.
C26_SecondSearchIsServedFromCache ==
    [][ (/\ Stored(last)
         /\ SameSearchAgain
         /\ Days(last'.at - last.at) <= 7)
        => (/\ ~last'.requested
            /\ last'.hit
            /\ last'.ret = last.ret) ]_vars

\* the step with which evaluate_site_by_seasons returns seasonal_results
SiteReturns == pc = "season" /\ pc' = "next_site"
\* the years of the results, in the order of the results
YearsOfResults(rs) == [i \in DOMAIN rs |-> rs[i]["growing_season_year"]]
\* the calendar years from y0 through y1, ascending
CalendarYears(y0, y1) == [i \in 1 .. (y1 - y0 + 1) |-> y0 + i - 1]

\* C27: evaluate_site_by_seasons returns one result per candidate year, in
\* ascending order and each tagged with its year and its site, whether the
\* year had data, had none or failed: the years from the year of date_first
\* through the year of date_last when the location has both dates, the
\* current year alone when it has not.
C27_OneResultPerCandidateYear ==
    [][ SiteReturns =>
          LET location == locations[site_i]
          IN  /\ \A i \in DOMAIN seasonal_results :
                     seasonal_results[i]["sitename"] = location.sitename
              /\ YearsOfResults(seasonal_results) =
                     IF HasDates(location)
                     THEN CalendarYears(fromisoformat(location.date_first).value.year,
                                        fromisoformat(location.date_last).value.year)
                     ELSE <<this_year(now)>> ]_vars
\* a site of two years has returned: the first year failed, the second has a
\* score
C27_Witness ==
    /\ pc = "next_site"
    /\ \E i \in DOMAIN results :
           /\ i + 1 \in DOMAIN results
           /\ results[i]["sitename"] = results[i + 1]["sitename"]
           /\ results[i]["growing_season_year"] = 2023
           /\ results[i + 1]["growing_season_year"] = 2024
           /\ QueryFailed(asked[i])
           /\ Numeric(results[i + 1]["suitability_score"])

\* the tasks of the call: the selected seasons that have both dates
SubmittedTasks ==
    { unit \in DOMAIN input.data :
        /\ unit[2] \in input.sites_config[unit[1]]
        /\ {"season_start_date", "season_end_date"} \subseteq DOMAIN input.data[unit] }
\* the season record of a unit is as it was but for the fields named, which
\* hold the values of v
OnlyChanged(unit, fields, v) ==
    /\ DOMAIN sites[unit] = DOMAIN input.data[unit] \cup fields
    /\ \A k \in DOMAIN sites[unit] :
           sites[unit][k] = IF k \in fields THEN v[k] ELSE input.data[unit][k]

\* C28: whatever the tasks, the order in which they finish and the ones that
\* fail, process_ndvi counts every task once and returns with completed equal
\* to the number of tasks; the statistics of a task that succeeded are in its
\* own season record, a task that failed has changed the ndvi_range of its
\* own record to 0.0 and nothing else, and the record of a season that was
\* not submitted, or whose result is not in yet, is as it was.
C28_EachTaskWritesItsOwnRecord ==
    ndvi_pc # "idle" =>
        /\ DOMAIN futures = SubmittedTasks
        /\ completed = Cardinality({unit \in DOMAIN futures : futures[unit].handled})
        /\ ndvi_pc = "returned" => completed = Cardinality(SubmittedTasks)
        /\ \A unit \in DOMAIN sites :
               IF unit \in DOMAIN futures /\ futures[unit].handled
               THEN IF futures[unit].outcome.raised
                    THEN OnlyChanged(unit, {"ndvi_range"}, [k \in {"ndvi_range"} |-> 0])
                    ELSE OnlyChanged(unit, NdviFields, futures[unit].outcome.value[3])
               ELSE sites[unit] = input.data[unit]
\* process_ndvi has returned: one task succeeded, one failed on a record that
\* held the statistics of an earlier run, and the season of site b, selected
\* but without an end date, was not submitted
C28_Witness ==
    /\ ndvi_pc = "returned"
    /\ completed = 2
    /\ \E u, v \in DOMAIN futures :
           /\ ~futures[u].outcome.raised
           /\ futures[v].outcome.raised
           /\ "ndvi_mean" \in DOMAIN input.data[v]
           /\ input.data[v]["ndvi_range"] # 0
    /\ 2023 \in input.sites_config["b"]
    /\ <<"b", 2023>> \notin DOMAIN futures

\* the lookup of the primed state is one of SatelliteQuery whose remote
\* request failed
RequestFailed ==
    /\ LookupStep
    /\ last'.obj = "satellite"
    /\ last'.requested
    /\ ~last'.fetch.ok

\* C29 as stated: when the remote request of search_satellite_data_daterange
\* fails, the cache is left unchanged: the file of the key is what it was
\* before the call.
C29_CacheUnchangedOnFailure ==
    [][ RequestFailed => sat_files'[last'.key] = sat_files[last'.key] ]_vars

\* C29: when the remote request of search_satellite_data_daterange fails,
\* the error reaches the caller and nothing is written: no entry is created
\* or overwritten for the key (a malformed file the lookup found there has
\* been removed before the request, a whole entry, expired, is as it was),
\* the files of the other keys and of the other cache are untouched, and the
\* next call with the same key makes the request again.
C29_FailedRequestWritesNothing ==
    [][ /\ RequestFailed =>
            /\ last'.ret = Raise("HTTPError")
            /\ sat_files'[last'.key] \in {sat_files[last'.key], NoFile}
            /\ sat_files'[last'.key] = NoFile =>
                   ~WholeEntry(sat_files[last'.key])
            /\ \A k \in DOMAIN sat_files \ {last'.key} : sat_files'[k] = sat_files[k]
            /\ DOMAIN sat_files' = DOMAIN sat_files
            /\ phen_file' = phen_file
        /\ (/\ last.obj = "satellite" /\ last.requested /\ ~last.fetch.ok
            /\ SameLookupAgain)
           => last'.requested ]_vars
\* a request has failed on an expired entry, which is still there, and the
\* same lookup was made again
C29_Witness ==
    /\ last.obj = "satellite" /\ last.requested /\ ~last.fetch.ok
    /\ WholeEntry(last.file_before)
    /\ sat_files[last.key] = last.file_before
    /\ sat_misses = 2

\* other values of the two arguments the score is said not to depend on
OtherOverlapDays == {0, 30}
OtherS3WeightedGapScores == {0, 5000}
\* the max gap of a sensor as the season's result holds it, 999 for a sensor
\* without dates in the season
SensorMaxGap(r, scenes, field) == IF r[scenes] = 0 THEN 999 ELSE r[field][1]
\* scenes per 30 days of the season
DensityOf(r, scenes) ==
    IF r["season_length_days"] > 0
    THEN (r[scenes] * 30 * Scale) \div r["season_length_days"] ELSE 0

\* C30: the score is the same whatever overlap_days and
\* s3_weighted_gap_score are, the other six arguments being equal; and the
\* score of a season is the score of its densities, its S2 cloud mean and S2
\* gap fields with, as max_gap, the smaller of the two sensors' max gaps, 999
\* standing for a sensor without dates.
C30_ScoreIgnoresOverlapAndS3GapScore ==
    /\ (input.kind = "score" /\ Ran(output)) =>
           \A overlap_days \in OtherOverlapDays,
              s3_weighted_gap_score \in OtherS3WeightedGapScores :
               output = Return(_calculate_suitability_score(
                            input.s2_density, input.s3_density, input.cloud_mean,
                            input.max_gap, overlap_days, input.s2_weighted_gap_score,
                            s3_weighted_gap_score, input.gap_count))
    /\ (/\ input.kind = "season"
        /\ Ran(output) /\ ~output.raised
        /\ "s2_gap_count" \in DOMAIN output.value) =>
           LET r == output.value
           IN  \A overlap_days \in OtherOverlapDays,
                  s3_weighted_gap_score \in OtherS3WeightedGapScores :
                   r["suitability_score"] =
                       Some(Round2(_calculate_suitability_score(
                           DensityOf(r, "sentinel2_scenes"),
                           DensityOf(r, "sentinel3_scenes"),
                           r["s2_cloud_cover_mean"],
                           Min(SensorMaxGap(r, "sentinel2_scenes", "max_s2_gap_days"),
                               SensorMaxGap(r, "sentinel3_scenes", "max_s3_gap_days")),
                           overlap_days, r["s2_weighted_gap_score"],
                           s3_weighted_gap_score, r["s2_gap_count"])))
\* a score above 0 of arguments with 7 overlap days and an S3 weighted gap
\* score of 0.9
C30_Witness ==
    /\ input.kind = "score" /\ Ran(output)
    /\ input.overlap_days = 7
    /\ input.s3_weighted_gap_score = 900
    /\ input.s2_weighted_gap_score = 77
    /\ output.value > 0

============================================================================
